---- MODULE Spec2Model ----
(***************************************************************************)
(* Medi-Reg-Master: the relevance-gated retrieval core.                    *)
(*   src/src/core/error_recovery.py   ErrorRecoveryFilter                  *)
(*   src/src/core/retrieval_model.py  RelevanceWeights,                    *)
(*                                    HierarchicalRetrievalModel           *)
(*                                                                         *)
(* Python str values are sequences of one-character strings, so that       *)
(* len(), lower(), the substring test `kw in title` and the regular        *)
(* expressions \w+ and \b\w{4,}\b are computed, not assumed.  Python float *)
(* values are exact rationals [n, d] (d > 0, lowest terms).                *)
(***************************************************************************)
EXTENDS Integers, Sequences, FiniteSets, TLC

VARIABLES
    filtering_history,         \* ErrorRecoveryFilter.filtering_history
    false_negatives_detected,  \* ErrorRecoveryFilter.false_negatives_detected
    dsf,                       \* <<>> or <<the last dual_stage_filter call and its outcome>>
    det,                       \* <<>> or <<the last detect_over_filtering call and its outcome>>
    thr,                       \* the adaptive_threshold_adjustment calls made, with their results
    weights,                   \* <<>> or <<the last RelevanceWeights construction and its outcome>>
    scored,                    \* <<>> or <<the last relevance_score call and its result>>
    struc,                     \* the _structural_relevance calls made, with their results
    ranked,                    \* <<>> or <<the last rank_nodes call and its result>>
    report,                    \* <<>> or <<the last explain_filtering_decisions call and its result>>
    nav,                       \* <<>> or <<the traversal in progress>>
    input                      \* the arguments the caller holds for its calls

vars == <<filtering_history, false_negatives_detected, dsf, det, thr, weights, scored,
          struc, ranked, report, nav, input>>

\* what the ErrorRecoveryFilter and RelevanceWeights operations leave alone
otherVars == <<struc, ranked, report, nav>>

(***************************************************************************)
(* Rationals                                                               *)
(***************************************************************************)
Abs(x) == IF x < 0 THEN -x ELSE x

RECURSIVE GCD(_, _)
GCD(a, b) == IF b = 0 THEN a ELSE GCD(b, a % b)

R(n, d) ==
    LET g == GCD(Abs(n), d)
    IN  [n |-> n \div g, d |-> d \div g]

RAdd(a, b) == R(a.n * b.d + b.n * a.d, a.d * b.d)
RSub(a, b) == R(a.n * b.d - b.n * a.d, a.d * b.d)
RMul(a, b) == R(a.n * b.n, a.d * b.d)
RLt(a, b)  == a.n * b.d < b.n * a.d
RGt(a, b)  == RLt(b, a)
RLe(a, b)  == ~RLt(b, a)
RGe(a, b)  == ~RLt(a, b)
RMin(a, b) == IF RLt(b, a) THEN b ELSE a
RMax(a, b) == IF RLt(a, b) THEN b ELSE a
RAbs(a)    == [n |-> Abs(a.n), d |-> a.d]
InUnit(a)  == RGe(a, R(0, 1)) /\ RLe(a, R(1, 1))

(***************************************************************************)
(* Strings                                                                 *)
(***************************************************************************)
\* str.lower() on one character
UpperToLower ==
    "A" :> "a" @@ "B" :> "b" @@ "C" :> "c" @@ "D" :> "d" @@ "E" :> "e" @@ "F" :> "f" @@
    "G" :> "g" @@ "H" :> "h" @@ "I" :> "i" @@ "J" :> "j" @@ "K" :> "k" @@ "L" :> "l" @@
    "M" :> "m" @@ "N" :> "n" @@ "O" :> "o" @@ "P" :> "p" @@ "Q" :> "q" @@ "R" :> "r" @@
    "S" :> "s" @@ "T" :> "t" @@ "U" :> "u" @@ "V" :> "v" @@ "W" :> "w" @@ "X" :> "x" @@
    "Y" :> "y" @@ "Z" :> "z"

LowerChar(c) == IF c \in DOMAIN UpperToLower THEN UpperToLower[c] ELSE c

\* str.lower()
Lower(s) == [i \in 1..Len(s) |-> LowerChar(s[i])]

\* the regular expression class \w
IsWordChar(c) == c \notin {" ", ".", ",", "-", "?"}

\* Python's `kw in s` on strings: kw occurs as a contiguous substring
IsSubstring(kw, s) ==
    \E i \in 0..(Len(s) - Len(kw)) : SubSeq(s, i + 1, i + Len(kw)) = kw

\* the maximal runs of the characters of s at the positions in keep, in order
Runs(s, keep) ==
    LET starts == {i \in keep : (i - 1) \notin keep}
        ends   == {j \in keep : (j + 1) \notin keep}
        nth(xs, k) == CHOOSE x \in xs : Cardinality({y \in xs : y < x}) = k - 1
    IN  [k \in 1..Cardinality(starts) |-> SubSeq(s, nth(starts, k), nth(ends, k))]

\* re.findall(r'\w+', s): the maximal runs of word characters, in order
FindAllWords(s) == Runs(s, {i \in 1..Len(s) : IsWordChar(s[i])})

\* sum(1 for kw in kws if kw in s)
RECURSIVE CountIn(_, _)
CountIn(kws, s) ==
    IF kws = <<>> THEN 0
    ELSE (IF IsSubstring(Head(kws), s) THEN 1 ELSE 0) + CountIn(Tail(kws), s)

\* dict.get(key, default)
Get(node, key, default) == IF key \in DOMAIN node THEN node[key] ELSE default

(***************************************************************************)
(* The strings the calls are made with                                     *)
(***************************************************************************)
SP == <<" ">>

\* "Deep" from "deep": the first letter in upper case
Cap(w) ==
    LET c == Head(w)
        u == CASE c = "a" -> "A" [] c = "c" -> "C" [] c = "d" -> "D" [] c = "f" -> "F"
               [] c = "i" -> "I" [] c = "l" -> "L" [] c = "n" -> "N" [] c = "x" -> "X"
               [] OTHER -> c
    IN  <<u>> \o Tail(w)

w_deep == <<"d", "e", "e", "p">>
w_neural == <<"n", "e", "u", "r", "a", "l">>
w_network == <<"n", "e", "t", "w", "o", "r", "k">>
w_networks == <<"n", "e", "t", "w", "o", "r", "k", "s">>
w_networking == <<"n", "e", "t", "w", "o", "r", "k", "i", "n", "g">>
w_nets == <<"n", "e", "t", "s">>
w_net == <<"n", "e", "t">>
w_learning == <<"l", "e", "a", "r", "n", "i", "n", "g">>
w_machine == <<"m", "a", "c", "h", "i", "n", "e">>
w_implementation == <<"i", "m", "p", "l", "e", "m", "e", "n", "t", "a", "t", "i", "o", "n">>
w_activation == <<"a", "c", "t", "i", "v", "a", "t", "i", "o", "n">>
w_functions == <<"f", "u", "n", "c", "t", "i", "o", "n", "s">>
w_cooking == <<"c", "o", "o", "k", "i", "n", "g">>
w_food == <<"f", "o", "o", "d">>
w_detailed == <<"d", "e", "t", "a", "i", "l", "e", "d">>
w_guide == <<"g", "u", "i", "d", "e">>
w_to == <<"t", "o">>
w_is == <<"i", "s">>
w_it == <<"i", "t">>
w_x == <<"x">>

\* titles, by length: 1, 7, 9, 10, 20, 22, 35
t_X        == Cap(w_x)
t_Cooking  == Cap(w_cooking)
t_DeepNets == Cap(w_deep) \o SP \o Cap(w_nets)
t_Networking == Cap(w_networking)
t_ActivationFunctions == Cap(w_activation) \o SP \o Cap(w_functions)
t_DeepLearningNetworks == Cap(w_deep) \o SP \o Cap(w_learning) \o SP \o Cap(w_networks)
t_DeepNeuralNetworksImplementation ==
    Cap(w_deep) \o SP \o Cap(w_neural) \o SP \o Cap(w_networks) \o SP \o Cap(w_implementation)

\* summaries, by length: 0, 4, 19, 20, 38
s_Empty == <<>>
s_Food  == Cap(w_food)
s_DeepNeuralNetwork  == w_deep \o SP \o w_neural \o SP \o w_network
s_DeepNeuralNetworks == w_deep \o SP \o w_neural \o SP \o w_networks
s_DetailedGuide ==
    Cap(w_detailed) \o SP \o w_guide \o SP \o w_to \o SP \o w_deep \o SP \o w_neural
        \o SP \o w_networks

\* queries
q_Empty   == <<>>
q_IsIt    == Cap(w_is) \o SP \o w_it \o <<"?">>
q_DeepDeep == Cap(w_deep) \o SP \o w_deep
q_IsDeep == Cap(w_is) \o SP \o w_deep
q_NeuralNet == w_neural \o SP \o w_net
q_DeepNeuralNetworks == w_deep \o SP \o w_neural \o SP \o w_networks
q_MachineLearning == w_machine \o SP \o w_learning

q_JavaScriptFunctions ==
    <<"J", "a", "v", "a", "S", "c", "r", "i", "p", "t", " ", "f", "u", "n", "c", "t",
      "i", "o", "n", "s">>

Queries ==
    {q_Empty, q_IsIt, q_DeepDeep, q_NeuralNet, q_DeepNeuralNetworks, q_MachineLearning,
     q_JavaScriptFunctions}

\* nodes: dicts; a key that is absent is absent from the record's domain
n_Bare     == [page_ref |-> "p1"]
n_Sparse   == [id |-> "sparse", title |-> t_X, summary |-> s_Empty]
n_Sparse9  == [id |-> "n9", title |-> t_DeepNets, summary |-> s_DeepNeuralNetwork]
n_Title10  == [id |-> "n10", title |-> t_Networking, summary |-> s_Food]
n_Summary20 == [id |-> "n20", title |-> t_Cooking, summary |-> s_DeepNeuralNetworks]
n_NoTitle  == [id |-> "nt", summary |-> s_DetailedGuide]
n_Activation == [id |-> "act", title |-> t_ActivationFunctions, summary |-> s_Food]
n_Learning == [id |-> "dln", title |-> t_DeepLearningNetworks, summary |-> s_Food]
n_Deep     == [id |-> "dnn", title |-> t_DeepNeuralNetworksImplementation,
               summary |-> s_DetailedGuide]

\* the JavaScript Guide: a root, three chapters, two sections in each
t_ch1s1 ==
    <<"W", "h", "a", "t", " ", "i", "s", " ", "J", "a", "v", "a", "S", "c", "r", "i",
      "p", "t", "?">>
s_ch1s1 ==
    <<"J", "a", "v", "a", "S", "c", "r", "i", "p", "t", " ", "i", "s", " ", "a", " ",
      "p", "r", "o", "g", "r", "a", "m", "m", "i", "n", "g", " ", "l", "a", "n", "g",
      "u", "a", "g", "e", " ", "f", "o", "r", " ", "w", "e", "b", " ", "d", "e", "v",
      "e", "l", "o", "p", "m", "e", "n", "t">>
js_ch1s1 == [id |-> "ch1s1", title |-> t_ch1s1, summary |-> s_ch1s1]

t_ch1s2 ==
    <<"S", "e", "t", "t", "i", "n", "g", " ", "u", "p", " ", "E", "n", "v", "i", "r",
      "o", "n", "m", "e", "n", "t">>
s_ch1s2 ==
    <<"H", "o", "w", " ", "t", "o", " ", "s", "e", "t", " ", "u", "p", " ", "N", "o",
      "d", "e", ".", "j", "s", " ", "a", "n", "d", " ", "a", " ", "c", "o", "d", "e",
      " ", "e", "d", "i", "t", "o", "r">>
js_ch1s2 == [id |-> "ch1s2", title |-> t_ch1s2, summary |-> s_ch1s2]

t_ch1 ==
    <<"I", "n", "t", "r", "o", "d", "u", "c", "t", "i", "o", "n", " ", "t", "o", " ",
      "J", "a", "v", "a", "S", "c", "r", "i", "p", "t">>
s_ch1 ==
    <<"B", "a", "s", "i", "c", "s", " ", "a", "n", "d", " ", "h", "i", "s", "t", "o",
      "r", "y", " ", "o", "f", " ", "J", "a", "v", "a", "S", "c", "r", "i", "p", "t",
      " ", "l", "a", "n", "g", "u", "a", "g", "e">>
js_ch1 == [id |-> "ch1", title |-> t_ch1, summary |-> s_ch1, children |-> <<js_ch1s1, js_ch1s2>>]

t_ch2s1 ==
    <<"D", "e", "c", "l", "a", "r", "i", "n", "g", " ", "V", "a", "r", "i", "a", "b",
      "l", "e", "s">>
s_ch2s1 ==
    <<"U", "s", "i", "n", "g", " ", "v", "a", "r", ",", " ", "l", "e", "t", ",", " ",
      "a", "n", "d", " ", "c", "o", "n", "s", "t", " ", "k", "e", "y", "w", "o", "r",
      "d", "s", " ", "e", "f", "f", "e", "c", "t", "i", "v", "e", "l", "y">>
js_ch2s1 == [id |-> "ch2s1", title |-> t_ch2s1, summary |-> s_ch2s1]

t_ch2s2 ==
    <<"S", "t", "r", "i", "n", "g", " ", "M", "a", "n", "i", "p", "u", "l", "a", "t",
      "i", "o", "n">>
s_ch2s2 ==
    <<"W", "o", "r", "k", "i", "n", "g", " ", "w", "i", "t", "h", " ", "s", "t", "r",
      "i", "n", "g", "s", ",", " ", "m", "e", "t", "h", "o", "d", "s", ",", " ", "a",
      "n", "d", " ", "t", "e", "m", "p", "l", "a", "t", "e", "s">>
js_ch2s2 == [id |-> "ch2s2", title |-> t_ch2s2, summary |-> s_ch2s2]

t_ch2 ==
    <<"V", "a", "r", "i", "a", "b", "l", "e", "s", " ", "a", "n", "d", " ", "D", "a",
      "t", "a", " ", "T", "y", "p", "e", "s">>
s_ch2 ==
    <<"U", "n", "d", "e", "r", "s", "t", "a", "n", "d", "i", "n", "g", " ", "v", "a",
      "r", "i", "a", "b", "l", "e", "s", ",", " ", "l", "e", "t", ",", " ", "c", "o",
      "n", "s", "t", ",", " ", "a", "n", "d", " ", "d", "i", "f", "f", "e", "r", "e",
      "n", "t", " ", "d", "a", "t", "a", " ", "t", "y", "p", "e", "s">>
js_ch2 == [id |-> "ch2", title |-> t_ch2, summary |-> s_ch2, children |-> <<js_ch2s1, js_ch2s2>>]

t_ch3s1 ==
    <<"F", "u", "n", "c", "t", "i", "o", "n", " ", "B", "a", "s", "i", "c", "s">>
s_ch3s1 ==
    <<"D", "e", "c", "l", "a", "r", "i", "n", "g", " ", "a", "n", "d", " ", "c", "a",
      "l", "l", "i", "n", "g", " ", "f", "u", "n", "c", "t", "i", "o", "n", "s", " ",
      "w", "i", "t", "h", " ", "p", "a", "r", "a", "m", "e", "t", "e", "r", "s">>
js_ch3s1 == [id |-> "ch3s1", title |-> t_ch3s1, summary |-> s_ch3s1]

t_ch3s2 ==
    <<"A", "r", "r", "o", "w", " ", "F", "u", "n", "c", "t", "i", "o", "n", "s">>
s_ch3s2 ==
    <<"M", "o", "d", "e", "r", "n", " ", "E", "S", "6", " ", "a", "r", "r", "o", "w",
      " ", "f", "u", "n", "c", "t", "i", "o", "n", " ", "s", "y", "n", "t", "a", "x",
      " ", "a", "n", "d", " ", "b", "e", "n", "e", "f", "i", "t", "s">>
js_ch3s2 == [id |-> "ch3s2", title |-> t_ch3s2, summary |-> s_ch3s2]

t_ch3 ==
    <<"F", "u", "n", "c", "t", "i", "o", "n", "s", " ", "i", "n", " ", "J", "a", "v",
      "a", "S", "c", "r", "i", "p", "t">>
s_ch3 ==
    <<"F", "u", "n", "c", "t", "i", "o", "n", " ", "d", "e", "c", "l", "a", "r", "a",
      "t", "i", "o", "n", ",", " ", "a", "r", "r", "o", "w", " ", "f", "u", "n", "c",
      "t", "i", "o", "n", "s", ",", " ", "a", "n", "d", " ", "c", "l", "o", "s", "u",
      "r", "e", "s">>
js_ch3 == [id |-> "ch3", title |-> t_ch3, summary |-> s_ch3, children |-> <<js_ch3s1, js_ch3s2>>]

t_root ==
    <<"J", "a", "v", "a", "S", "c", "r", "i", "p", "t", " ", "G", "u", "i", "d", "e">>
s_root ==
    <<"C", "o", "m", "p", "l", "e", "t", "e", " ", "g", "u", "i", "d", "e", " ", "t",
      "o", " ", "J", "a", "v", "a", "S", "c", "r", "i", "p", "t", " ", "p", "r", "o",
      "g", "r", "a", "m", "m", "i", "n", "g">>
js_root == [id |-> "root", title |-> t_root, summary |-> s_root, children |-> <<js_ch1, js_ch2, js_ch3>>]

sample_tree == js_root

Nodes ==
    {n_Bare, n_Sparse, n_Sparse9, n_Title10, n_Summary20, n_NoTitle, n_Activation,
     n_Learning, n_Deep, js_ch1, js_ch3}

(***************************************************************************)
(* The external judge (llm_check_fn): what one call of it does             *)
(***************************************************************************)
PyFloat(r) == [type |-> "float", v |-> r]
PyStr      == [type |-> "str", v |-> R(0, 1)]

\* no judge supplied (llm_check_fn=None)
j_None     == [supplied |-> FALSE, raises |-> FALSE, is_mapping |-> FALSE, result |-> [x |-> 0]]
\* the judge raises an Exception
j_Raises   == [supplied |-> TRUE, raises |-> TRUE, is_mapping |-> FALSE, result |-> [x |-> 0]]
\* the judge returns a value with no .get (None, a list, a number)
j_NonMapping == [supplied |-> TRUE, raises |-> FALSE, is_mapping |-> FALSE, result |-> [x |-> 0]]
\* the judge returns the dict `result`
Returns(result) == [supplied |-> TRUE, raises |-> FALSE, is_mapping |-> TRUE, result |-> result]

JudgeConfidences == {R(0, 1), R(85, 100), R(1, 1)}

Judges ==
    {j_None, j_Raises, j_NonMapping}
    \cup {Returns([reason |-> "r"]),
          Returns([relevant |-> TRUE]),
          Returns([relevant |-> FALSE]),
          Returns([confidence |-> PyFloat(R(85, 100))]),
          Returns([relevant |-> TRUE, confidence |-> PyStr]),
          Returns([relevant |-> FALSE, confidence |-> PyStr])}
    \cup {Returns([relevant |-> b, confidence |-> PyFloat(c)]) :
            b \in BOOLEAN, c \in JudgeConfidences}

(***************************************************************************)
(* ErrorRecoveryFilter                                                     *)
(***************************************************************************)
llm_weight           == R(7, 10)
\* keyword_weight: float = 1.0, the two weights no longer summing to 1
keyword_weight_unnormalised == R(1, 1)

keyword_weight       == R(3, 10)
confidence_threshold == R(6, 10)

TitleSparseLen   == 10
SummarySparseLen == 20
KeywordMinLen    == 2

\* Optional[float]
None    == <<>>
Some(r) == <<r>>

FilteringDecision(is_relevant, confidence, reason, llm_score, keyword_score, combined_score) ==
    [is_relevant |-> is_relevant, confidence |-> confidence, reason |-> reason,
     llm_score |-> llm_score, keyword_score |-> keyword_score,
     combined_score |-> combined_score]

\* [kw for kw in kws if len(kw) > k]
RECURSIVE LongerThan(_, _)
LongerThan(kws, k) ==
    IF kws = <<>> THEN <<>>
    ELSE (IF Len(Head(kws)) > k THEN <<Head(kws)>> ELSE <<>>) \o LongerThan(Tail(kws), k)

\* the body of the try block of _llm_evaluate
\* _llm_evaluate's try body with the scores 0.6 / 0.4 for 0.9 / 0.1
LlmEvaluateTryMild(judge) ==
    IF judge.raises \/ ~judge.is_mapping
    THEN [raised |-> TRUE, llm_score |-> R(0, 1), llm_confidence |-> R(0, 1), calls |-> 1]
    ELSE LET is_relevant == Get(judge.result, "relevant", FALSE)
             confidence  == Get(judge.result, "confidence", PyFloat(R(1, 2)))
             llm_score   == IF is_relevant THEN R(6, 10) ELSE R(4, 10)
         IN  IF confidence.type = "float"
             THEN [raised |-> FALSE, llm_score |-> llm_score,
                   llm_confidence |-> confidence.v, calls |-> 1]
             ELSE [raised |-> TRUE, llm_score |-> R(0, 1), llm_confidence |-> R(0, 1),
                   calls |-> 1]

LlmEvaluateTry(judge) ==
    IF judge.raises \/ ~judge.is_mapping
    THEN [raised |-> TRUE, llm_score |-> R(0, 1), llm_confidence |-> R(0, 1), calls |-> 1]
    ELSE LET is_relevant == Get(judge.result, "relevant", FALSE)
             confidence  == Get(judge.result, "confidence", PyFloat(R(1, 2)))
             llm_score   == IF is_relevant THEN R(9, 10) ELSE R(1, 10)
         IN  IF confidence.type = "float"
             THEN [raised |-> FALSE, llm_score |-> llm_score,
                   llm_confidence |-> confidence.v, calls |-> 1]
             ELSE [raised |-> TRUE, llm_score |-> R(0, 1), llm_confidence |-> R(0, 1),
                   calls |-> 1]

LlmEvaluate(judge) ==
    LET try == LlmEvaluateTry(judge)
    IN  IF try.raised
        THEN [raised |-> FALSE, llm_score |-> R(1, 2), llm_confidence |-> R(3, 10),
              calls |-> try.calls]
        ELSE try

\* _keyword_evaluate with the title matches counted in the summary
KeywordEvaluateSummaryTwice(title, summary, query) ==
    LET query_lower    == Lower(query)
        summary_lower  == Lower(summary)
        query_keywords == LongerThan(FindAllWords(query_lower), KeywordMinLen)
    IN  IF query_keywords = <<>> THEN R(3, 10)
        ELSE LET title_matches   == CountIn(query_keywords, summary_lower)
                 summary_matches == CountIn(query_keywords, summary_lower)
                 title_score   == RMin(R(title_matches, Len(query_keywords)), R(1, 1))
                 summary_score == RMin(R(summary_matches, Len(query_keywords)), R(1, 1))
             IN  RAdd(RMul(title_score, R(4, 10)), RMul(summary_score, R(6, 10)))

KeywordEvaluate(title, summary, query) ==
    LET query_lower    == Lower(query)
        title_lower    == Lower(title)
        summary_lower  == Lower(summary)
        query_keywords == LongerThan(FindAllWords(query_lower), KeywordMinLen)
    IN  IF query_keywords = <<>> THEN R(3, 10)
        ELSE LET title_matches   == CountIn(query_keywords, title_lower)
                 summary_matches == CountIn(query_keywords, summary_lower)
                 title_score   == RMin(R(title_matches, Len(query_keywords)), R(1, 1))
                 summary_score == RMin(R(summary_matches, Len(query_keywords)), R(1, 1))
             IN  RAdd(RMul(title_score, R(4, 10)), RMul(summary_score, R(6, 10)))

GenerateReason(llm_score, keyword_score, combined_score) ==
    IF RGt(combined_score, R(7, 10))
    THEN (IF RGt(llm_score, keyword_score) THEN "Strong LLM match"
          ELSE "Strong keyword match")
    ELSE IF RGt(combined_score, R(5, 10))
    THEN "Moderate match from multiple signals"
    ELSE IF RGt(llm_score, R(5, 10))
    THEN "LLM suggests relevance but weak keyword signals"
    ELSE "Minimal relevance signals"

\* the history record with no 'unknown' for a missing id
HistoryRecordNoDefault(node, title, llm_score, keyword_score, combined_score, confidence, is_relevant, depth) ==
    [node_id |-> Get(node, "id", ""), title |-> title, llm_score |-> llm_score,
     keyword_score |-> keyword_score, combined_score |-> combined_score,
     confidence |-> confidence, is_relevant |-> is_relevant, depth |-> depth]

HistoryRecord(node, title, llm_score, keyword_score, combined_score, confidence, is_relevant, depth) ==
    [node_id |-> Get(node, "id", "unknown"), title |-> title, llm_score |-> llm_score,
     keyword_score |-> keyword_score, combined_score |-> combined_score,
     confidence |-> confidence, is_relevant |-> is_relevant, depth |-> depth]

\* `if depth == 0` read as a test for the first level below the root
IsRootOffByOne(depth) == depth = 1

\* `if depth == 0`
IsRoot(depth) == depth = 0

\* the sparse guard with the title bound one too low
IsSparseOffByOne(title, summary) ==
    Len(summary) < SummarySparseLen /\ Len(title) < TitleSparseLen - 1

\* `if len(summary) < 20 and len(title) < 10`
IsSparse(title, summary) ==
    Len(summary) < SummarySparseLen /\ Len(title) < TitleSparseLen

\* dual_stage_filter: whether it raised, the decision it returned, and what it
\* appended to filtering_history.  parent_context is only handed to the judge.
\* `combined_score >= 0.5` for `combined_score > 0.5`
IsRelevantGe(combined_score) == RGe(combined_score, R(1, 2))

\* is_relevant = combined_score > 0.5
IsRelevant(combined_score) == RGt(combined_score, R(1, 2))

DualStageFilter(node, query, depth, judge) ==
    IF IsRoot(depth)
    THEN [raised |-> FALSE,
          decision |-> FilteringDecision(TRUE, R(1, 1), "Root node always relevant",
                                         None, None, None),
          appended |-> <<>>, judge_calls |-> 0]
    ELSE
    LET title   == Get(node, "title", <<>>)
        summary == Get(node, "summary", <<>>)
    IN  IF IsSparse(title, summary)
        THEN [raised |-> FALSE,
              decision |-> FilteringDecision(FALSE, R(95, 100),
                                             "Content too sparse to evaluate",
                                             None, None, None),
              appended |-> <<HistoryRecord(node, title, R(0, 1), R(0, 1), R(0, 1),
                                           R(95, 100), FALSE, depth)>>,
              judge_calls |-> 0]
        ELSE
        LET llm == IF judge.supplied THEN LlmEvaluate(judge)
                   ELSE [raised |-> FALSE, llm_score |-> R(1, 2), llm_confidence |-> R(0, 1),
                         calls |-> 0]
            keyword_score      == KeywordEvaluate(title, summary, query)
            keyword_confidence == IF RGt(keyword_score, R(1, 2)) THEN R(1, 1) ELSE R(3, 10)
            combined_score == RAdd(RMul(llm_weight, llm.llm_score),
                                   RMul(keyword_weight, keyword_score))
            confidence     == RAdd(RMul(llm_weight, llm.llm_confidence),
                                   RMul(keyword_weight, keyword_confidence))
            is_relevant    == IsRelevant(combined_score)
        IN  IF llm.raised
            THEN [raised |-> TRUE,
                  decision |-> FilteringDecision(FALSE, R(0, 1), "", None, None, None),
                  appended |-> <<>>, judge_calls |-> llm.calls]
            ELSE [raised |-> FALSE,
                  decision |-> FilteringDecision(
                      is_relevant, confidence,
                      GenerateReason(llm.llm_score, keyword_score, combined_score),
                      Some(llm.llm_score), Some(keyword_score), Some(combined_score)),
                  appended |-> <<HistoryRecord(node, title, llm.llm_score, keyword_score,
                                               combined_score, confidence, is_relevant,
                                               depth)>>,
                  judge_calls |-> llm.calls]

CriticalMinLen == 4
LongTitleLen   == 20
RecoveryCap    == 3

\* [kw for kw in kws if len(kw) >= k]
RECURSIVE AtLeast(_, _)
AtLeast(kws, k) ==
    IF kws = <<>> THEN <<>>
    ELSE (IF Len(Head(kws)) >= k THEN <<Head(kws)>> ELSE <<>>) \o AtLeast(Tail(kws), k)

\* re.findall(r'\b\w{4,}\b', query_lower): the maximal runs of word characters
\* that are at least 4 long (a shorter run matches at no position)
CriticalKeywords(query_lower) == AtLeast(FindAllWords(query_lower), CriticalMinLen)

\* the recovery rule with the title bound read as >= 20
QualifiesGe(node, query) ==
    \E title \in {Lower(Get(node, "title", <<>>))} :
    \E matches \in {CountIn(CriticalKeywords(Lower(query)), title)} :
        matches >= 2 \/ (matches >= 1 /\ Len(title) >= LongTitleLen)

\* the test of one node in the loop of _recover_critical_nodes
Qualifies(node, query) ==
    \E title \in {Lower(Get(node, "title", <<>>))} :
    \E matches \in {CountIn(CriticalKeywords(Lower(query)), title)} :
        matches >= 2 \/ (matches >= 1 /\ Len(title) > LongTitleLen)

\* the list `recovered` when the loop of _recover_critical_nodes ends
RECURSIVE RecoverLoop(_, _)
RecoverLoop(filtered_nodes, query) ==
    IF filtered_nodes = <<>> THEN <<>>
    ELSE (IF Qualifies(Head(filtered_nodes), query) THEN <<Head(filtered_nodes)>> ELSE <<>>)
         \o RecoverLoop(Tail(filtered_nodes), query)

\* `return recovered` without the slice
FirstThreeMissing(recovered) == recovered

\* recovered[:3]
FirstThree(recovered) ==
    SubSeq(recovered, 1, IF Len(recovered) < RecoveryCap THEN Len(recovered) ELSE RecoveryCap)

\* _recover_critical_nodes: the list returned, the list built by the loop (one
\* increment of false_negatives_detected per member), and the argument list as
\* the call leaves it
RecoverCriticalNodes(filtered_nodes, query) ==
    LET recovered == RecoverLoop(filtered_nodes, query)
    IN  [returned |-> FirstThree(recovered), recovered |-> recovered,
         filtered_nodes |-> filtered_nodes]

\* the second test of detect_over_filtering with >= for >
OverFilteredGe(num_selected, num_filtered) ==
    \/ num_selected = 0 /\ num_filtered > 0
    \/ num_selected < 2 /\ num_filtered >= num_selected * 2

\* the two tests of detect_over_filtering
OverFiltered(num_selected, num_filtered) ==
    \/ num_selected = 0 /\ num_filtered > 0
    \/ num_selected < 2 /\ num_filtered > num_selected * 2

\* `return False, filtered_nodes` for `return False, []`
NoRecoveryAll(filtered_nodes) ==
    [returned |-> filtered_nodes, recovered |-> <<>>, filtered_nodes |-> filtered_nodes]

NoRecovery(filtered_nodes) ==
    [returned |-> <<>>, recovered |-> <<>>, filtered_nodes |-> filtered_nodes]

DetectOverFiltering(selected_nodes, filtered_nodes, query) ==
    IF OverFiltered(Len(selected_nodes), Len(filtered_nodes))
    THEN [triggered |-> TRUE, recovery |-> RecoverCriticalNodes(filtered_nodes, query),
          selected_nodes |-> selected_nodes]
    ELSE [triggered |-> FALSE, recovery |-> NoRecovery(filtered_nodes),
          selected_nodes |-> selected_nodes]

\* filter_rate = 1.0 - (num_selected / num_total) if num_total > 0 else 0.0
FilterRate(num_selected, num_total) ==
    IF num_total > 0 THEN RSub(R(1, 1), R(num_selected, num_total)) ELSE R(0, 1)

\* adaptive_threshold_adjustment with the query-length rules tried first
AdaptiveThresholdQueryFirst(num_selected, num_total, query_length) ==
    LET base_threshold == confidence_threshold
        filter_rate    == FilterRate(num_selected, num_total)
    IN  IF query_length < 10 THEN RAdd(base_threshold, R(10, 100))
        ELSE IF query_length > 100 THEN RSub(base_threshold, R(5, 100))
        ELSE IF RGt(filter_rate, R(9, 10)) THEN RSub(base_threshold, R(15, 100))
        ELSE IF RGt(filter_rate, R(7, 10)) THEN RSub(base_threshold, R(10, 100))
        ELSE IF RLt(filter_rate, R(3, 10)) THEN RAdd(base_threshold, R(10, 100))
        ELSE base_threshold

\* adaptive_threshold_adjustment without the query-length rules
AdaptiveThresholdRateOnly(num_selected, num_total, query_length) ==
    LET base_threshold == confidence_threshold
        filter_rate    == FilterRate(num_selected, num_total)
    IN  IF RGt(filter_rate, R(9, 10)) THEN RSub(base_threshold, R(15, 100))
        ELSE IF RGt(filter_rate, R(7, 10)) THEN RSub(base_threshold, R(10, 100))
        ELSE IF RLt(filter_rate, R(3, 10)) THEN RAdd(base_threshold, R(10, 100))
        ELSE base_threshold

AdaptiveThresholdAdjustment(num_selected, num_total, query_length) ==
    LET base_threshold == confidence_threshold
        filter_rate    == FilterRate(num_selected, num_total)
    IN  IF RGt(filter_rate, R(9, 10)) THEN RSub(base_threshold, R(15, 100))
        ELSE IF RGt(filter_rate, R(7, 10)) THEN RSub(base_threshold, R(10, 100))
        ELSE IF RLt(filter_rate, R(3, 10)) THEN RAdd(base_threshold, R(10, 100))
        ELSE IF query_length < 10 THEN RAdd(base_threshold, R(10, 100))
        ELSE IF query_length > 100 THEN RSub(base_threshold, R(5, 100))
        ELSE base_threshold

(***************************************************************************)
(* RelevanceWeights and HierarchicalRetrievalModel                         *)
(***************************************************************************)
default_weights ==
    [semantic_weight |-> R(7, 10), structural_weight |-> R(2, 10),
     contextual_weight |-> R(1, 10)]

max_depth == 5
depth_decay == R(9, 10)
SumTolerance == R(1, 1000000)
TitleBonus == R(2, 10)
MinCoherence == R(3, 10)
NeutralCoherence == R(1, 2)

\* total - 1.0 > 1e-6, without the abs
SumOutOfToleranceOneSided(total) == RGt(RSub(total, R(1, 1)), SumTolerance)

\* abs(total - 1.0) > 1e-6
SumOutOfTolerance(total) == RGt(RAbs(RSub(total, R(1, 1))), SumTolerance)

\* RelevanceWeights(...): __post_init__ raises ValueError or returns
PostInit(w) ==
    LET total == RAdd(RAdd(w.semantic_weight, w.structural_weight), w.contextual_weight)
    IN  [raised |-> SumOutOfTolerance(total)]

\* str.strip()
Strip(s) ==
    LET inked == {i \in 1..Len(s) : s[i] # " "}
    IN  IF inked = {} THEN <<>>
        ELSE SubSeq(s, CHOOSE i \in inked : \A j \in inked : i <= j,
                       CHOOSE i \in inked : \A j \in inked : i >= j)

\* str.split(): the maximal runs of non-whitespace characters
Split(s) == Runs(s, {i \in 1..Len(s) : s[i] # " "})

\* set(list)
ToSet(xs) == {xs[i] : i \in 1..Len(xs)}

\* np.clip without the clipping
ClipNone(x, lo, hi) == x

\* np.clip(x, lo, hi)
Clip(x, lo, hi) == RMin(RMax(x, lo), hi)

RECURSIVE RPow(_, _)
RPow(r, k) == IF k = 0 THEN R(1, 1) ELSE RMul(r, RPow(r, k - 1))

SemanticRelevance(node, query) ==
    LET node_title   == Get(node, "title", <<>>)
        node_summary == Get(node, "summary", <<>>)
        node_text    == Strip(node_title \o <<".", " ">> \o node_summary)
        query_words  == ToSet(FindAllWords(Lower(query)))
        node_words   == ToSet(FindAllWords(Lower(node_text)))
        title_lower  == Lower(node_title)
    IN  IF node_text = <<>> THEN R(0, 1)
        ELSE IF query_words = {} THEN R(0, 1)
        ELSE LET overlap    == Cardinality(query_words \cap node_words)
                 similarity == R(overlap, Cardinality(query_words))
                 bonus      == \E query_word \in query_words :
                                   IsSubstring(query_word, title_lower)
                 after      == IF bonus THEN RMin(RAdd(similarity, TitleBonus), R(1, 1))
                               ELSE similarity
             IN  RMin(after, R(1, 1))

\* _structural_relevance with `>` for `>=`
StructuralRelevanceOfOffByOne(self, current_depth) ==
    IF current_depth > self.max_depth THEN R(0, 1)
    ELSE Clip(RPow(self.depth_decay, current_depth), R(0, 1), R(1, 1))

\* _structural_relevance of a model built with self.max_depth, self.depth_decay
StructuralRelevanceOf(self, current_depth) ==
    IF current_depth >= self.max_depth THEN R(0, 1)
    ELSE Clip(RPow(self.depth_decay, current_depth), R(0, 1), R(1, 1))

\* HierarchicalRetrievalModel(): the default max_depth and depth_decay
StructuralRelevance(current_depth) ==
    StructuralRelevanceOf([max_depth |-> max_depth, depth_decay |-> depth_decay],
                          current_depth)

\* parent_node is None or Some(node)
ContextualRelevance(node, parent_node) ==
    IF parent_node = None THEN R(1, 1)
    ELSE LET node_title   == Get(node, "title", <<>>)
             parent_title == Get(parent_node[1], "title", <<>>)
             node_words   == ToSet(Split(Lower(node_title)))
             parent_words == ToSet(Split(Lower(parent_title)))
         IN  IF node_title = <<>> \/ parent_title = <<>> THEN NeutralCoherence
             ELSE IF parent_words = {} THEN NeutralCoherence
             ELSE LET overlap   == Cardinality(node_words \cap parent_words)
                      coherence == RMax(R(overlap, Cardinality(parent_words)), MinCoherence)
                  IN  RMin(coherence, R(1, 1))

\* the weighted sum before np.clip
WeightedSum(w, semantic, structural, contextual) ==
    RAdd(RAdd(RMul(w.semantic_weight, semantic), RMul(w.structural_weight, structural)),
         RMul(w.contextual_weight, contextual))

RelevanceScore(w, node, query, current_depth, parent_node) ==
    LET semantic_score   == SemanticRelevance(node, query)
        structural_score == StructuralRelevance(current_depth)
        contextual_score == ContextualRelevance(node, parent_node)
        total_score      == Clip(WeightedSum(w, semantic_score, structural_score,
                                             contextual_score), R(0, 1), R(1, 1))
    IN  [score |-> total_score,
         components |-> [semantic |-> semantic_score, structural |-> structural_score,
                         contextual |-> contextual_score, total |-> total_score]]

ReportConfidence == R(8, 10)
default_limit == 10

\* xs[:n]
Take(xs, n) == SubSeq(xs, 1, IF n < Len(xs) THEN n ELSE Len(xs))

\* explain_filtering_decisions(limit): the report's counts and, per listed
\* rejection, the title of its line (the two numbers of a line are left out)
ExplainFilteringDecisions(history, false_negatives, limit) ==
    LET Confident(h) == ~h.is_relevant /\ RGt(h.confidence, ReportConfidence)
        Uncertain(h) == ~h.is_relevant /\ RLe(h.confidence, ReportConfidence)
        confident_rejects == SelectSeq(history, Confident)
        uncertain_rejects == SelectSeq(history, Uncertain)
        Titles(hs) == [k \in 1..Len(hs) |-> hs[k].title]
    IN  [confident_count |-> Len(confident_rejects),
         confident_lines |-> Titles(Take(confident_rejects, limit)),
         uncertain_count |-> Len(uncertain_rejects),
         uncertain_lines |-> Titles(Take(uncertain_rejects, limit)),
         false_negatives |-> false_negatives]

(***************************************************************************)
(* State machine                                                           *)
(***************************************************************************)
MaxDepth   == 2
MaxHistory == 2
MaxSelected == 2
MaxFiltered == 4
MaxFalseNegatives == 1
MaxTotal == 11
MaxCalls == 2
MaxScoreDepth == 6
MaxModelDepth == 5
MaxStructuralCalls == 2
MaxRankLen == 3
MaxRankDepth == 1
MaxNavDepth == 2
MaxBranches == 3

\* the lists over S of length at most n
ListsUpTo(S, n) == UNION {[1..k -> S] : k \in 0..n}

\* ErrorRecoveryFilter.__init__, and nothing called yet
InitObjects ==
    /\ filtering_history = <<>>
    /\ false_negatives_detected = 0
    /\ dsf = <<>>
    /\ det = <<>>
    /\ thr = <<>>
    /\ weights = <<>>
    /\ scored = <<>>
    /\ struc = <<>>
    /\ ranked = <<>>
    /\ report = <<>>
    /\ nav = <<>>

\* dual_stage_filter lowering its confidence once the history holds a
\* rejection: a decision that consults the history
DualStageFilterCallConsultingHistory(node, query, depth, judge) ==
    /\ Len(filtering_history) < MaxHistory
    /\ \E out \in {DualStageFilter(node, query, depth, judge)} :
           LET rejected_before ==
                   \E k \in 1..Len(filtering_history) : ~filtering_history[k].is_relevant
               decision == IF rejected_before
                           THEN [out.decision EXCEPT !.confidence = R(0, 1)]
                           ELSE out.decision
           IN  /\ filtering_history' = filtering_history \o out.appended
               /\ dsf' = <<[node |-> node, query |-> query, depth |-> depth,
                            judge |-> judge, raised |-> out.raised, decision |-> decision,
                            judge_calls |-> out.judge_calls]>>
    /\ UNCHANGED <<false_negatives_detected, det, thr, weights, scored, input, otherVars>>

DualStageFilterCall(node, query, depth, judge) ==
    /\ Len(filtering_history) < MaxHistory
    /\ \E out \in {DualStageFilter(node, query, depth, judge)} :
           /\ filtering_history' = filtering_history \o out.appended
           /\ dsf' = <<[node |-> node, query |-> query, depth |-> depth, judge |-> judge,
                        raised |-> out.raised, decision |-> out.decision,
                        judge_calls |-> out.judge_calls]>>
    /\ UNCHANGED <<false_negatives_detected, det, thr, weights, scored, input, otherVars>>

DetectOverFilteringCall(selected_nodes, filtered_nodes, query) ==
    /\ false_negatives_detected < MaxFalseNegatives
    /\ \E out \in {DetectOverFiltering(selected_nodes, filtered_nodes, query)} :
           /\ false_negatives_detected' =
                  false_negatives_detected + Len(out.recovery.recovered)
           /\ det' = <<[op |-> "detect_over_filtering",
                        selected_nodes |-> selected_nodes,
                        filtered_nodes |-> filtered_nodes,
                        query |-> query, triggered |-> out.triggered,
                        returned |-> out.recovery.returned,
                        recovered |-> out.recovery.recovered,
                        selected_after |-> out.selected_nodes,
                        filtered_after |-> out.recovery.filtered_nodes]>>
    /\ UNCHANGED <<filtering_history, dsf, thr, weights, scored, input, otherVars>>

\* _recover_critical_nodes called on its own (as the tests do)
RecoverCriticalNodesCall(filtered_nodes, query) ==
    /\ false_negatives_detected < MaxFalseNegatives
    /\ \E out \in {RecoverCriticalNodes(filtered_nodes, query)} :
           /\ false_negatives_detected' = false_negatives_detected + Len(out.recovered)
           /\ det' = <<[op |-> "_recover_critical_nodes",
                        selected_nodes |-> <<>>, filtered_nodes |-> filtered_nodes,
                        query |-> query, triggered |-> FALSE,
                        returned |-> out.returned, recovered |-> out.recovered,
                        selected_after |-> <<>>, filtered_after |-> out.filtered_nodes]>>
    /\ UNCHANGED <<filtering_history, dsf, thr, weights, scored, input, otherVars>>

\* adaptive_threshold_adjustment changes nothing of the filter; thr is the
\* caller's list of the calls it has made and their results
AdaptiveThresholdAdjustmentCall(num_selected, num_total, query_length) ==
    /\ Len(thr) < MaxCalls
    /\ thr' = Append(thr, [num_selected |-> num_selected, num_total |-> num_total,
                           query_length |-> query_length,
                           result |-> AdaptiveThresholdAdjustment(
                                          num_selected, num_total, query_length)])
    /\ UNCHANGED <<filtering_history, false_negatives_detected, dsf, det, weights,
                   scored, input, otherVars>>

\* One filter, called (repeatedly) with the arguments drawn at the start.
InitFilter ==
    /\ InitObjects
    /\ input \in [node : Nodes, query : Queries, depth : 0..MaxDepth, judge : Judges]

NextFilter ==
    DualStageFilterCall(input.node, input.query, input.depth, input.judge)

SpecFilter == InitFilter /\ [][NextFilter]_vars

\* One filter, its detection and recovery called with the lists drawn at the start.
RejectedNodes == {n_Bare, n_Sparse9, n_Activation, n_Learning}

q_ActivationLearning == w_activation \o SP \o Cap(w_learning)

DetectQueries == {q_DeepDeep, q_ActivationLearning, q_DeepNeuralNetworks}

InitDetect ==
    /\ InitObjects
    /\ input \in [selected_nodes : ListsUpTo({n_Sparse}, MaxSelected),
                  filtered_nodes : ListsUpTo(RejectedNodes, MaxFiltered),
                  query : DetectQueries]

NextDetect ==
    \/ DetectOverFilteringCall(input.selected_nodes, input.filtered_nodes, input.query)
    \/ RecoverCriticalNodesCall(input.filtered_nodes, input.query)

SpecDetect == InitDetect /\ [][NextDetect]_vars

\* One filter and one (num_selected, num_total); the threshold is asked for
\* with queries of several lengths.
QueryLengths == {0, 5, 9, 10, 11, 100, 101, 150}

InitThreshold ==
    /\ InitObjects
    /\ input \in {c \in [num_selected : 0..MaxTotal, num_total : 0..MaxTotal] :
                      c.num_selected <= c.num_total}

NextThreshold ==
    \E query_length \in QueryLengths :
        AdaptiveThresholdAdjustmentCall(input.num_selected, input.num_total, query_length)

SpecThreshold == InitThreshold /\ [][NextThreshold]_vars

(***************************************************************************)
(* Claims about dual_stage_filter (SpecFilter)                             *)
(***************************************************************************)
Called == dsf # <<>>
Call   == dsf[1]
CallTitle   == Get(Call.node, "title", <<>>)
CallSummary == Get(Call.node, "summary", <<>>)
CallIsSparse ==
    Len(CallTitle) < TitleSparseLen /\ Len(CallSummary) < SummarySparseLen

\* C1: a call of dual_stage_filter at depth 0 raises nothing and returns
\* is_relevant = True with confidence exactly 1.0, whatever the node (empty
\* title and summary included), the query and the judge.
C1_RootAlwaysRelevant ==
    (Called /\ Call.depth = 0) =>
        /\ ~Call.raised
        /\ Call.decision.is_relevant
        /\ Call.decision.confidence = [n |-> 1, d |-> 1]

\* a depth-0 call on a node with neither title nor summary, a judge that
\* answers "not relevant" supplied
C1_Witness ==
    /\ Called
    /\ Call.depth = 0
    /\ Call.node = n_Bare
    /\ Call.judge = Returns([relevant |-> FALSE, confidence |-> PyFloat(R(1, 1))])
    /\ Call.decision.is_relevant

\* C2: a call at depth > 0 on a node with title length < 10 and summary length
\* < 20 returns is_relevant = False with confidence 0.95 (> 0.9), whatever the
\* query and whatever the judge does, a judge answering "relevant" included.
C2_SparseRejected ==
    (Called /\ Call.depth > 0 /\ CallIsSparse) =>
        /\ ~Call.raised
        /\ ~Call.decision.is_relevant
        /\ Call.decision.confidence = [n |-> 19, d |-> 20]
        /\ RGt(Call.decision.confidence, R(9, 10))

\* a 9-character title and 19-character summary that hold every query term,
\* a judge that answers "relevant" with confidence 1.0
C2_Witness ==
    /\ Called
    /\ Call.depth = 1
    /\ Call.node = n_Sparse9
    /\ Call.query = q_DeepDeep
    /\ Call.judge = Returns([relevant |-> TRUE, confidence |-> PyFloat(R(1, 1))])
    /\ ~Call.decision.is_relevant

\* The judge failed, in the claim's sense: it raised, returned a value that is
\* no mapping, or returned a mapping without "relevant" or without a numeric
\* "confidence".
JudgeFailed(judge) ==
    /\ judge.supplied
    /\ \/ judge.raises
       \/ ~judge.is_mapping
       \/ "relevant" \notin DOMAIN judge.result
       \/ "confidence" \notin DOMAIN judge.result
       \/ judge.result["confidence"].type # "float"

\* the confidence the code blends from an external confidence of 0.3
NeutralBlend(keyword_score) ==
    RAdd(RMul(llm_weight, R(3, 10)),
         RMul(keyword_weight, IF RGt(keyword_score, R(1, 2)) THEN R(1, 1) ELSE R(3, 10)))

\* C3: for a non-root, non-sparse node every failure of the supplied judge is
\* absorbed: the call raises nothing, and the external score is 0.5 with
\* external confidence 0.3.
C3_JudgeFailureNeutral ==
    (Called /\ Call.depth > 0 /\ ~CallIsSparse /\ JudgeFailed(Call.judge)) =>
        /\ ~Call.raised
        /\ Call.decision.llm_score = Some(R(1, 2))
        /\ Call.decision.confidence = NeutralBlend(Call.decision.keyword_score[1])

(***************************************************************************)
(* Claims about detect_over_filtering and recovery (SpecDetect)            *)
(***************************************************************************)
Detected  == det # <<>> /\ det[1].op = "detect_over_filtering"
Recovered == det # <<>>
Det       == det[1]
\* the last call ran _recover_critical_nodes (directly, or detection triggered)
RecoveryRan == Recovered /\ (Det.op = "_recover_critical_nodes" \/ Det.triggered)

\* C4: detect_over_filtering reports triggered exactly when (|selected| = 0 and
\* |filtered| > 0) or (|selected| < 2 and |filtered| > 2*|selected|): never with
\* |selected| >= 2, never with both lists empty, with one selected node only
\* from 3 filtered nodes on; and when not triggered the recovered list is empty.
C4_TriggerCondition ==
    Detected =>
        LET ns == Len(Det.selected_nodes)
            nf == Len(Det.filtered_nodes)
        IN  /\ Det.triggered <=> ((ns = 0 /\ nf > 0) \/ (ns < 2 /\ nf > 2 * ns))
            /\ ns >= 2 => ~Det.triggered
            /\ (ns = 0 /\ nf = 0) => ~Det.triggered
            /\ (ns = 1 /\ Det.triggered) => nf >= 3
            /\ ~Det.triggered => Det.returned = <<>>

\* one selected node and exactly two filtered nodes that both qualify for
\* recovery: not triggered, nothing recovered
C4_Witness ==
    /\ Detected
    /\ Len(Det.selected_nodes) = 1
    /\ Det.filtered_nodes = <<n_Learning, n_Learning>>
    /\ Det.query = q_ActivationLearning
    /\ ~Det.triggered

\* how many of the query's terms of length >= 4 occur in the title; `words` are
\* the case-folded query's words (each occurrence in the query is a term) and
\* `title` the case-folded title
TermCount(words, title) ==
    Cardinality({i \in DOMAIN words : Len(words[i]) >= 4 /\ IsSubstring(words[i], title)})

QueryWords(query) == FindAllWords(Lower(query))

FoldedTitle(node) == IF "title" \in DOMAIN node THEN Lower(node.title) ELSE <<>>

ClaimQualifies(words, title) ==
    \/ TermCount(words, title) >= 2
    \/ TermCount(words, title) >= 1 /\ Len(title) > 20

\* the positions of filtered_nodes that the claim's rule keeps, in order
RECURSIVE KeptPositions(_, _, _)
KeptPositions(filtered_nodes, words, i) ==
    IF i > Len(filtered_nodes) THEN <<>>
    ELSE (IF ClaimQualifies(words, FoldedTitle(filtered_nodes[i])) THEN <<i>> ELSE <<>>)
         \o KeptPositions(filtered_nodes, words, i + 1)

\* C5: recovery keeps a filtered node exactly when at least 2 query terms of
\* length >= 4 occur in its title, or at least 1 does and the title is longer
\* than 20 characters (terms counted per occurrence in the query, matched as
\* case-folded substrings); a node with no such term in its title is never
\* recovered; and detect_over_filtering on selected = [] and a filtered list
\* holding a node with >= 2 such terms is triggered with a non-empty result.
C5_RecoveryRule ==
    Recovered =>
        \E words \in {QueryWords(Det.query)} :
        \E kept \in {KeptPositions(Det.filtered_nodes, words, 1)} :
            /\ RecoveryRan =>
                   Det.recovered = [k \in 1..Len(kept) |-> Det.filtered_nodes[kept[k]]]
            /\ \A k \in 1..Len(Det.returned) :
                   TermCount(words, FoldedTitle(Det.returned[k])) >= 1
            /\ ( /\ Detected
                 /\ Det.selected_nodes = <<>>
                 /\ \E k \in 1..Len(Det.filtered_nodes) :
                        TermCount(words, FoldedTitle(Det.filtered_nodes[k])) >= 2 )
               => (Det.triggered /\ Det.returned # <<>>)

\* selected = [], and a filtered list with a 20-character title holding one
\* term (not kept), a node without title (not kept) and a 22-character title
\* holding one term (kept)
C5_Witness ==
    /\ Detected
    /\ Det.selected_nodes = <<>>
    /\ Det.query = q_ActivationLearning
    /\ Det.filtered_nodes = <<n_Activation, n_Bare, n_Learning>>
    /\ Det.triggered
    /\ Det.returned = <<n_Learning>>

RECURSIVE IsSubsequence(_, _)
IsSubsequence(xs, ys) ==
    IF xs = <<>> THEN TRUE
    ELSE IF ys = <<>> THEN FALSE
    ELSE IF Head(xs) = Head(ys) THEN IsSubsequence(Tail(xs), Tail(ys))
    ELSE IsSubsequence(xs, Tail(ys))

\* C6: recovery returns at most 3 nodes however many qualify: the first (up to
\* 3) qualifying nodes in the order of the filtered list, a subsequence of it;
\* and the selected and filtered argument lists are left as they were.
C6_RecoveryCap ==
    Recovered =>
        /\ Len(Det.returned) <= 3
        /\ Len(Det.returned) = (IF Len(Det.recovered) < 3 THEN Len(Det.recovered) ELSE 3)
        /\ \A k \in 1..Len(Det.returned) : Det.returned[k] = Det.recovered[k]
        /\ IsSubsequence(Det.returned, Det.filtered_nodes)
        /\ Det.selected_after = Det.selected_nodes
        /\ Det.filtered_after = Det.filtered_nodes

\* four filtered nodes qualify, three are returned: the first three
C6_Witness ==
    /\ RecoveryRan
    /\ Det.query = q_DeepDeep
    /\ Det.filtered_nodes = <<n_Learning, n_Sparse9, n_Learning, n_Sparse9>>
    /\ Len(Det.recovered) = 4
    /\ Det.returned = <<n_Learning, n_Sparse9, n_Learning>>

\* RelevanceWeights(semantic_weight, structural_weight, contextual_weight):
\* the arguments and whether __post_init__ raised
ConstructWeights(w) ==
    /\ weights = <<>>
    /\ weights' = <<[semantic_weight |-> w.semantic_weight,
                     structural_weight |-> w.structural_weight,
                     contextual_weight |-> w.contextual_weight,
                     raised |-> PostInit(w).raised]>>
    /\ UNCHANGED <<filtering_history, false_negatives_detected, dsf, det, thr, scored,
                   input, otherVars>>

\* HierarchicalRetrievalModel(weights).relevance_score(...): there is a model to
\* call only when the construction of its weights returned
RelevanceScoreCall(node, query, current_depth, parent_node) ==
    /\ weights # <<>>
    /\ ~weights[1].raised
    /\ scored = <<>>
    /\ \E out \in {RelevanceScore(weights[1], node, query, current_depth, parent_node)} :
           scored' = <<[node |-> node, query |-> query, current_depth |-> current_depth,
                        parent_node |-> parent_node, score |-> out.score,
                        components |-> out.components]>>
    /\ UNCHANGED <<filtering_history, false_negatives_detected, dsf, det, thr, weights,
                   input, otherVars>>

\* weight triples: the default, sums off by 0.1 / 0.3 / 1, negative and large
\* coefficients that sum to 1, and sums 5e-7 and 2e-6 away from 1 on each side
W(a, b, c) == [semantic_weight |-> a, structural_weight |-> b, contextual_weight |-> c]

WeightTriples ==
    { default_weights,
      W(R(5, 10), R(3, 10), R(3, 10)),
      W(R(5, 10), R(1, 10), R(1, 10)),
      W(R(0, 1), R(0, 1), R(0, 1)),
      W(R(15, 10), R(-3, 10), R(-2, 10)),
      W(R(-5, 10), R(5, 10), R(1, 1)),
      W(R(1, 1), R(0, 1), R(0, 1)),
      W(R(0, 1), R(0, 1), R(1, 1)),
      W(R(3, 10), R(6, 10), R(1, 10)),
      W(R(10000005, 10000000), R(0, 1), R(0, 1)),
      W(R(9999995, 10000000), R(0, 1), R(0, 1)),
      W(R(1000002, 1000000), R(0, 1), R(0, 1)),
      W(R(999998, 1000000), R(0, 1), R(0, 1)) }

n_Empty == [id |-> "e", title |-> <<>>, summary |-> <<>>]
n_Blank == [id |-> "b", title |-> SP, summary |-> <<>>]

ScoreNodes == {n_Bare, n_Empty, n_Blank, n_Sparse9, n_Summary20, n_Deep}
ScoreQueries == {q_Empty, q_IsIt, q_IsDeep, q_DeepDeep, q_DeepNeuralNetworks}
ScoreParents == {None, Some(n_Bare), Some(n_Blank), Some(n_Sparse9), Some(n_Deep)}

InitScore ==
    /\ InitObjects
    /\ input \in [node : ScoreNodes, query : ScoreQueries,
                  current_depth : 0..MaxScoreDepth, parent_node : ScoreParents]

NextScore ==
    \/ \E w \in WeightTriples : ConstructWeights(w)
    \/ RelevanceScoreCall(input.node, input.query, input.current_depth, input.parent_node)

SpecScore == InitScore /\ [][NextScore]_vars

(***************************************************************************)
(* Claims about adaptive_threshold_adjustment (SpecThreshold)              *)
(***************************************************************************)
\* filter_rate > p/10, < p/10, in whole numbers; filter_rate is 0 when total is 0
RateAbove(c, p) == c.num_total > 0 /\ 10 * (c.num_total - c.num_selected) > p * c.num_total
RateBelow(c, p) ==
    c.num_total = 0 \/ 10 * (c.num_total - c.num_selected) < p * c.num_total
RateRuleMatches(c) == RateAbove(c, 9) \/ RateAbove(c, 7) \/ RateBelow(c, 3)

\* base + k/100
BasePlus(k) == [n |-> 60 + k, d |-> 100]
SameValue(a, b) == a.n * b.d = b.n * a.d

\* C7: adaptive_threshold_adjustment applies the first matching rule only, in
\* the order: filter_rate > 0.9 -> base - 0.15; > 0.7 -> base - 0.1; < 0.3 ->
\* base + 0.1 (total = 0 included); query_length < 10 -> base + 0.1;
\* query_length > 100 -> base - 0.05; else base.  No query-length rule applies
\* when a filter-rate rule matches.
C7_FirstMatchingRule ==
    \A i \in 1..Len(thr) :
        LET c == thr[i]
        IN  /\ RateAbove(c, 9) => SameValue(c.result, BasePlus(-15))
            /\ (~RateAbove(c, 9) /\ RateAbove(c, 7)) => SameValue(c.result, BasePlus(-10))
            /\ (~RateAbove(c, 7) /\ RateBelow(c, 3)) => SameValue(c.result, BasePlus(10))
            /\ c.num_total = 0 => SameValue(c.result, BasePlus(10))
            /\ (~RateRuleMatches(c) /\ c.query_length < 10) =>
                   SameValue(c.result, BasePlus(10))
            /\ (~RateRuleMatches(c) /\ c.query_length >= 10 /\ c.query_length > 100) =>
                   SameValue(c.result, BasePlus(-5))
            /\ (~RateRuleMatches(c) /\ c.query_length >= 10 /\ c.query_length <= 100) =>
                   SameValue(c.result, BasePlus(0))

\* filter_rate = 10/11 > 0.9 with a 5-token query: base - 0.15, not base + 0.1
C7_Witness ==
    \E i \in 1..Len(thr) :
        /\ thr[i].num_selected = 1
        /\ thr[i].num_total = 11
        /\ thr[i].query_length = 5
        /\ SameValue(thr[i].result, BasePlus(-15))

\* C8 as claimed: for the same num_selected and num_total, whatever they are,
\* the threshold for a 5-token query is strictly higher than the threshold for
\* a 150-token query.
C8_ShortAboveLongAlways ==
    \A i, j \in 1..Len(thr) :
        ( /\ thr[i].num_selected = thr[j].num_selected
          /\ thr[i].num_total = thr[j].num_total
          /\ thr[i].query_length = 5
          /\ thr[j].query_length = 150 )
        => RGt(thr[i].result, thr[j].result)

\* C8 as amended: for the same num_selected and num_total, the threshold for a
\* 5-token query is strictly higher than for a 150-token query (base + 0.1
\* against base - 0.05) when no filter-rate rule matches, that is when
\* num_total > 0 and 0.3 <= filter_rate <= 0.7; when a filter-rate rule matches
\* the two thresholds are equal.
C8_ShortAboveLong ==
    \A i, j \in 1..Len(thr) :
        ( /\ thr[i].num_selected = thr[j].num_selected
          /\ thr[i].num_total = thr[j].num_total
          /\ thr[i].query_length = 5
          /\ thr[j].query_length = 150 )
        => IF RateRuleMatches(thr[i])
           THEN SameValue(thr[i].result, thr[j].result)
           ELSE /\ RGt(thr[i].result, thr[j].result)
                /\ SameValue(thr[i].result, BasePlus(10))
                /\ SameValue(thr[j].result, BasePlus(-5))

\* 5 of 10 selected (filter_rate 0.5): a 5-token call, then a 150-token call
C8_Witness ==
    /\ Len(thr) = 2
    /\ thr[1].num_selected = 5 /\ thr[1].num_total = 10
    /\ thr[1].query_length = 5 /\ thr[2].query_length = 150
    /\ RGt(thr[1].result, thr[2].result)

(***************************************************************************)
(* Claims about RelevanceWeights and relevance_score (SpecScore)           *)
(***************************************************************************)
Constructed == weights # <<>>
Scored == scored # <<>>

\* |a + b + c - 1| > 1e-6, in whole numbers over the common denominator
SumOff(w) ==
    LET a == w.semantic_weight
        b == w.structural_weight
        c == w.contextual_weight
        den == a.d * b.d * c.d
        num == a.n * b.d * c.d + b.n * a.d * c.d + c.n * a.d * b.d
    IN  1000000 * Abs(num - den) > den

\* C9: constructing RelevanceWeights raises exactly when the sum of the three
\* weights differs from 1.0 by more than 1e-6 and returns otherwise;
\* (0.5, 0.3, 0.3) raises and (0.7, 0.2, 0.1) does not; no relevance_score
\* result exists for weights whose construction raised.
C9_WeightSumValidation ==
    /\ Constructed => (weights[1].raised <=> SumOff(weights[1]))
    /\ (Constructed /\ weights[1].semantic_weight = R(5, 10)
                    /\ weights[1].structural_weight = R(3, 10)
                    /\ weights[1].contextual_weight = R(3, 10)) => weights[1].raised
    /\ (Constructed /\ weights[1].semantic_weight = R(7, 10)
                    /\ weights[1].structural_weight = R(2, 10)
                    /\ weights[1].contextual_weight = R(1, 10)) => ~weights[1].raised
    /\ Scored => (Constructed /\ ~SumOff(weights[1]))

\* the sum 0.7 (0.5, 0.1, 0.1) is below 1 by more than the tolerance: raised
C9_Witness ==
    /\ Constructed
    /\ weights[1].semantic_weight = R(5, 10)
    /\ weights[1].structural_weight = R(1, 10)
    /\ weights[1].raised
    /\ ~Scored

\* C10: for every weight triple whose construction returned, relevance_score
\* returns a total in [0,1] and semantic, structural and contextual components
\* in [0,1], for every node (empty title and summary included), query, depth
\* and parent.
C10_ScoreRange ==
    Scored =>
        /\ InUnit(scored[1].score)
        /\ InUnit(scored[1].components.total)
        /\ InUnit(scored[1].components.semantic)
        /\ InUnit(scored[1].components.structural)
        /\ InUnit(scored[1].components.contextual)

\* weights (1.5, -0.3, -0.2), every query word in the node, depth >= max_depth,
\* a parent sharing no title word: 1.5*1 - 0.3*0 - 0.2*0.3 = 1.44, returned as 1
C10_Witness ==
    /\ Scored
    /\ weights[1].semantic_weight = R(15, 10)
    /\ scored[1].components.semantic = R(1, 1)
    /\ scored[1].components.structural = R(0, 1)
    /\ scored[1].components.contextual = R(3, 10)
    /\ scored[1].score = R(1, 1)

(***************************************************************************)
(* _structural_relevance (SpecStructural)                                  *)
(***************************************************************************)
\* _structural_relevance reads the model and changes nothing; struc is the
\* caller's list of the calls it has made and their results
StructuralRelevanceCall(self, current_depth) ==
    /\ Len(struc) < MaxStructuralCalls
    /\ struc' = Append(struc, [max_depth |-> self.max_depth,
                               depth_decay |-> self.depth_decay,
                               current_depth |-> current_depth,
                               result |-> StructuralRelevanceOf(self, current_depth)])
    /\ UNCHANGED <<filtering_history, false_negatives_detected, dsf, det, thr, weights,
                   scored, ranked, report, nav, input>>

\* decays in (0,1)
DepthDecays == {R(1, 10), R(1, 2), depth_decay}

\* One model, HierarchicalRetrievalModel(max_depth=..., depth_decay=...), asked
\* for the structural score of several depths.
InitStructural ==
    /\ InitObjects
    /\ input \in [max_depth : 1..MaxModelDepth, depth_decay : DepthDecays]

NextStructural ==
    \E current_depth \in 0..MaxScoreDepth : StructuralRelevanceCall(input, current_depth)

SpecStructural == InitStructural /\ [][NextStructural]_vars

RECURSIVE IntPow(_, _)
IntPow(b, k) == IF k = 0 THEN 1 ELSE b * IntPow(b, k - 1)

\* C11: the structural component is depth_decay^depth for 0 <= depth <
\* max_depth and 0 for every depth >= max_depth; it does not increase with
\* depth below max_depth (decay in (0,1)); structural(0) = 1 and
\* structural(max_depth) = 0.
C11_StructuralDecay ==
    \A i \in 1..Len(struc) :
        LET c == struc[i]
        IN  /\ c.current_depth < c.max_depth =>
                   /\ c.result.n = IntPow(c.depth_decay.n, c.current_depth)
                   /\ c.result.d = IntPow(c.depth_decay.d, c.current_depth)
            /\ c.current_depth >= c.max_depth => c.result = R(0, 1)
            /\ c.current_depth = 0 => c.result = R(1, 1)
            /\ c.current_depth = c.max_depth => c.result = R(0, 1)
            /\ \A j \in 1..Len(struc) :
                   (c.current_depth < struc[j].current_depth
                        /\ struc[j].current_depth < c.max_depth)
                   => RGe(c.result, struc[j].result)

\* the default model: depth 4 gives 0.9^4 = 0.6561, then depth 5 = max_depth gives 0
C11_Witness ==
    /\ Len(struc) = 2
    /\ struc[1].max_depth = max_depth /\ struc[1].depth_decay = depth_decay
    /\ struc[1].current_depth = 4 /\ struc[1].result = R(6561, 10000)
    /\ struc[2].current_depth = max_depth /\ struc[2].result = R(0, 1)

(***************************************************************************)
(* rank_nodes (SpecRank)                                                   *)
(***************************************************************************)
\* list.sort(key=score, reverse=True) with equal scores the other way round
RECURSIVE InsertByScoreTiesFirst(_, _)
InsertByScoreTiesFirst(xs, x) ==
    IF xs = <<>> THEN <<x>>
    ELSE IF RGt(Head(xs).score, x.score)
         THEN <<Head(xs)>> \o InsertByScoreTiesFirst(Tail(xs), x)
         ELSE <<x>> \o xs

\* one step of the stable descending sort: x goes behind every element whose
\* score is at least its own
RECURSIVE InsertByScore(_, _)
InsertByScore(xs, x) ==
    IF xs = <<>> THEN <<x>>
    ELSE IF RGe(Head(xs).score, x.score)
         THEN <<Head(xs)>> \o InsertByScore(Tail(xs), x)
         ELSE <<x>> \o xs

\* scored_nodes.sort(key=lambda x: x[1], reverse=True)
RECURSIVE SortByScore(_, _)
SortByScore(sorted, rest) ==
    IF rest = <<>> THEN sorted
    ELSE SortByScore(InsertByScore(sorted, Head(rest)), Tail(rest))

\* the (node, score, components) tuples in the order of `nodes`
ScoredNodes(w, nodes, query, parent_node, current_depth) ==
    [i \in 1..Len(nodes) |->
        LET out == RelevanceScore(w, nodes[i], query, current_depth, parent_node)
        IN  [node |-> nodes[i], score |-> out.score, components |-> out.components]]

RankNodes(w, nodes, query, parent_node, current_depth) ==
    SortByScore(<<>>, ScoredNodes(w, nodes, query, parent_node, current_depth))

RankNodesCall(nodes, query, parent_node, current_depth) ==
    /\ weights # <<>>
    /\ ~weights[1].raised
    /\ ranked = <<>>
    /\ \E out \in {RankNodes(weights[1], nodes, query, parent_node, current_depth)} :
           ranked' = <<[nodes |-> nodes, query |-> query, parent_node |-> parent_node,
                        current_depth |-> current_depth, result |-> out]>>
    /\ UNCHANGED <<filtering_history, false_negatives_detected, dsf, det, thr, weights,
                   scored, struc, report, nav, input>>

\* the default weights, contextual only (every rootless score equal), and a
\* triple that is refused
RankWeights == {default_weights, W(R(0, 1), R(0, 1), R(1, 1)), W(R(5, 10), R(3, 10), R(3, 10))}
RankNodePool == {n_Bare, n_Empty, n_Sparse9, n_Summary20}
RankQueries == {q_DeepDeep, q_DeepNeuralNetworks}
RankParents == {None, Some(n_Sparse9)}

InitRank ==
    /\ InitObjects
    /\ input \in [nodes : ListsUpTo(RankNodePool, MaxRankLen), query : RankQueries,
                  parent_node : RankParents, current_depth : 0..MaxRankDepth]

NextRank ==
    \/ \E w \in RankWeights : ConstructWeights(w)
    \/ RankNodesCall(input.nodes, input.query, input.parent_node, input.current_depth)

SpecRank == InitRank /\ [][NextRank]_vars

Ranked == ranked # <<>>

\* the bijections of 1..n
Bijections(n) == {f \in [1..n -> 1..n] : \A i, j \in 1..n : f[i] = f[j] => i = j}

\* C12: rank_nodes returns a permutation of its input nodes (same length, each
\* input position exactly once), each paired with its relevance_score at the
\* given depth and parent, in non-increasing order of total score, and nodes
\* of equal total score keep their relative input order.
C12_RankNodes ==
    Ranked =>
        LET c == ranked[1]
            n == Len(c.nodes)
        IN  /\ Len(c.result) = n
            /\ \E f \in Bijections(n) :
                   /\ \A k \in 1..n :
                          LET out == RelevanceScore(weights[1], c.nodes[f[k]], c.query,
                                                    c.current_depth, c.parent_node)
                          IN  /\ c.result[k].node = c.nodes[f[k]]
                              /\ c.result[k].score = out.score
                              /\ c.result[k].components = out.components
                   /\ \A k \in 1..(n - 1) :
                          /\ RGe(c.result[k].score, c.result[k + 1].score)
                          /\ c.result[k].score = c.result[k + 1].score => f[k] < f[k + 1]

\* default weights, no parent: the two textless nodes tie at 0.3 behind the
\* matching node and keep their input order (n_Empty before n_Bare)
C12_Witness ==
    /\ Ranked
    /\ ranked[1].nodes = <<n_Empty, n_Bare, n_Summary20>>
    /\ ranked[1].parent_node = None
    /\ ranked[1].current_depth = 0
    /\ ranked[1].result[1].node = n_Summary20
    /\ ranked[1].result[2].node = n_Empty
    /\ ranked[1].result[3].node = n_Bare
    /\ ranked[1].result[2].score = ranked[1].result[3].score

(***************************************************************************)
(* One filter under every operation (SpecHistory)                          *)
(***************************************************************************)
ExplainFilteringDecisionsCall(limit) ==
    /\ report' = <<[limit |-> limit,
                    result |-> ExplainFilteringDecisions(filtering_history,
                                                         false_negatives_detected, limit)]>>
    /\ UNCHANGED <<filtering_history, false_negatives_detected, dsf, det, thr, weights,
                   scored, struc, ranked, nav, input>>

\* a node without id, title and summary; a sparse node; a node with a long title
HistoryNodes == {n_Bare, n_Sparse, n_Learning}
HistoryJudges == {j_None, Returns([relevant |-> TRUE, confidence |-> PyFloat(R(85, 100))])}
HistoryDepths == {0, 1}
HistoryFiltered == {<<n_Bare>>, <<n_Learning>>, <<n_Learning, n_Learning, n_Learning, n_Learning>>}
ReportLimits == {1, default_limit}

InitHistory ==
    /\ InitObjects
    /\ input = <<>>

NextHistory ==
    \/ \E node \in HistoryNodes, depth \in HistoryDepths, judge \in HistoryJudges :
           DualStageFilterCall(node, q_DeepDeep, depth, judge)
    \/ \E filtered_nodes \in HistoryFiltered :
           DetectOverFilteringCall(<<>>, filtered_nodes, q_DeepDeep)
    \/ RecoverCriticalNodesCall(<<n_Learning>>, q_DeepDeep)
    \/ AdaptiveThresholdAdjustmentCall(0, 0, 5)
    \/ \E limit \in ReportLimits : ExplainFilteringDecisionsCall(limit)

SpecHistory == InitHistory /\ [][NextHistory]_vars

IsPrefix(xs, ys) == Len(xs) <= Len(ys) /\ SubSeq(ys, 1, Len(xs)) = xs

\* the step is a dual_stage_filter call (a step of another operation that
\* leaves det, thr, report and the counter as they are changes nothing)
FilterStep ==
    /\ dsf' # <<>>
    /\ <<det, thr, report, false_negatives_detected>>'
           = <<det, thr, report, false_negatives_detected>>

\* the record a dual_stage_filter call leaves, against the call and its decision
RecordOfCall(rec, call) ==
    /\ rec.node_id = Get(call.node, "id", "unknown")
    /\ rec.is_relevant = call.decision.is_relevant
    /\ rec.confidence = call.decision.confidence
    /\ rec.depth = call.depth

\* C13 as claimed: the history is append-only under every operation; a
\* dual_stage_filter call at depth > 0, sparse or not, appends exactly one
\* record with the node's id ('unknown' when missing) and the decision's
\* is_relevant, confidence and combined score; a call at depth 0 appends
\* nothing; no other operation changes the history.
C13_HistoryCarriesDecision ==
    [][ /\ IsPrefix(filtering_history, filtering_history')
        /\ ~FilterStep => filtering_history' = filtering_history
        /\ (FilterStep /\ dsf'[1].depth = 0) => filtering_history' = filtering_history
        /\ (FilterStep /\ dsf'[1].depth > 0) =>
               /\ Len(filtering_history') = Len(filtering_history) + 1
               /\ LET rec == filtering_history'[Len(filtering_history')]
                  IN  /\ RecordOfCall(rec, dsf'[1])
                      /\ Some(rec.combined_score) = dsf'[1].decision.combined_score
      ]_vars

\* C13 as amended: the same, with the combined score of the record equal to
\* the decision's when the decision has one, and 0.0 for a sparse rejection,
\* whose decision carries no combined score.
C13_HistoryAppendOnly ==
    [][ /\ IsPrefix(filtering_history, filtering_history')
        /\ ~FilterStep => filtering_history' = filtering_history
        /\ (FilterStep /\ dsf'[1].depth = 0) => filtering_history' = filtering_history
        /\ (FilterStep /\ dsf'[1].depth > 0) =>
               /\ Len(filtering_history') = Len(filtering_history) + 1
               /\ LET rec  == filtering_history'[Len(filtering_history')]
                      call == dsf'[1]
                      sparse == IsSparse(Get(call.node, "title", <<>>),
                                         Get(call.node, "summary", <<>>))
                  IN  /\ RecordOfCall(rec, call)
                      /\ sparse => /\ call.decision.combined_score = None
                                   /\ rec.combined_score = R(0, 1)
                      /\ ~sparse => Some(rec.combined_score) = call.decision.combined_score
      ]_vars

\* the record of a node without id, then a call at depth 0 that appended
\* nothing, and detection with recovery, a threshold and a report since
C13_Witness ==
    /\ Len(filtering_history) = 1
    /\ filtering_history[1].node_id = "unknown"
    /\ dsf # <<>> /\ dsf[1].depth = 0
    /\ det # <<>> /\ det[1].triggered /\ false_negatives_detected = 1
    /\ thr # <<>>
    /\ report # <<>> /\ report[1].result.confident_count = 1

(***************************************************************************)
(* TreeNavigator: one traversal (section 4.3 of the specification; the     *)
(* module src/core/tree_traversal.py is not part of the sources).  The     *)
(* relevance decision is the navigator's ErrorRecoveryFilter, the ranking  *)
(* of children is HierarchicalRetrievalModel.rank_nodes.                   *)
(***************************************************************************)
\* node.get("children", [])
Children(node) == Get(node, "children", <<>>)

\* the dict `node` with the key children
WithChildren(node, children) ==
    [k \in DOMAIN node \cup {"children"} |->
        IF k = "children" THEN children ELSE node[k]]

\* xs without its i-th element
RemoveAt(xs, i) == SubSeq(xs, 1, i - 1) \o SubSeq(xs, i + 1, Len(xs))

\* Expand with the children of a node at depth = max_depth enqueued as well
ExpandOffByOne(node, depth, path, query, nav_max_depth, max_branches) ==
    IF depth > nav_max_depth THEN <<>>
    ELSE LET ranked_children == RankNodes(default_weights, Children(node), query,
                                          Some(node), depth + 1)
             top == Take(ranked_children, max_branches)
         IN  [k \in 1..Len(top) |->
                 [node |-> top[k].node, depth |-> depth + 1,
                  path |-> Append(path, node.id)]]

\* the frontier entries for the children of `node` (at `depth`, reached by
\* `path`): the first max_branches of rank_nodes, at depth + 1, and none when
\* depth >= nav_max_depth
Expand(node, depth, path, query, nav_max_depth, max_branches) ==
    IF depth >= nav_max_depth THEN <<>>
    ELSE LET ranked_children == RankNodes(default_weights, Children(node), query,
                                          Some(node), depth + 1)
             top == Take(ranked_children, max_branches)
         IN  [k \in 1..Len(top) |->
                 [node |-> top[k].node, depth |-> depth + 1,
                  path |-> Append(path, node.id)]]

\* traverse(root, ...) begins: the root is selected without a decision
TraverseBegin(root, query, nav_max_depth, max_branches) ==
    [phase |-> "walk",
     frontier |-> Expand(root, 0, <<>>, query, nav_max_depth, max_branches),
     selected_nodes |-> <<root>>,
     visited_nodes |-> <<root>>,
     rejected_nodes |-> <<>>,
     evaluated |-> <<>>,
     walk_selected |-> <<>>,
     detections |-> 0,
     triggered |-> FALSE,
     recovered |-> <<>>]

\* TraverseDecide with the children of a rejected node enqueued as well
TraverseDecideNoPruning(n, i, decision, query, nav_max_depth, max_branches) ==
    LET e    == n.frontier[i]
        rest == RemoveAt(n.frontier, i)
        done == Append(n.evaluated, [id |-> e.node.id, depth |-> e.depth, path |-> e.path,
                                     is_relevant |-> decision.is_relevant])
        more == Expand(e.node, e.depth, e.path, query, nav_max_depth, max_branches)
    IN  IF decision.is_relevant
        THEN [n EXCEPT !.frontier = rest \o more,
                       !.selected_nodes = Append(@, e.node),
                       !.visited_nodes = Append(@, e.node),
                       !.evaluated = done]
        ELSE [n EXCEPT !.frontier = rest \o more,
                       !.rejected_nodes = Append(@, e.node),
                       !.evaluated = done]

\* one frontier entry is taken and decided; accepted: selected, visited and
\* expanded; rejected: nothing of its subtree enters the frontier
TraverseDecide(n, i, decision, query, nav_max_depth, max_branches) ==
    LET e    == n.frontier[i]
        rest == RemoveAt(n.frontier, i)
        done == Append(n.evaluated, [id |-> e.node.id, depth |-> e.depth, path |-> e.path,
                                     is_relevant |-> decision.is_relevant])
    IN  IF decision.is_relevant
        THEN [n EXCEPT !.frontier = rest \o Expand(e.node, e.depth, e.path, query,
                                                  nav_max_depth, max_branches),
                       !.selected_nodes = Append(@, e.node),
                       !.visited_nodes = Append(@, e.node),
                       !.evaluated = done]
        ELSE [n EXCEPT !.frontier = rest,
                       !.rejected_nodes = Append(@, e.node),
                       !.evaluated = done]

\* the walk is over: detect_over_filtering on the final partition, and what
\* it recovered appended to selected_nodes
TraverseEnd(n, detection) ==
    [n EXCEPT !.phase = "done",
              !.walk_selected = n.selected_nodes,
              !.selected_nodes = n.selected_nodes \o detection.recovery.returned,
              !.detections = @ + 1,
              !.triggered = detection.triggered,
              !.recovered = detection.recovery.returned]

\* the judge's behaviour at one evaluation: absent, answering relevant,
\* answering not relevant, raising
NavJudges ==
    {j_None, j_Raises,
     Returns([relevant |-> TRUE, confidence |-> PyFloat(R(85, 100))]),
     Returns([relevant |-> FALSE, confidence |-> PyFloat(R(85, 100))])}

TraverseStart ==
    /\ nav = <<>>
    /\ nav' = <<TraverseBegin(input.root, input.query, input.nav_max_depth,
                              input.max_branches)>>
    /\ UNCHANGED <<filtering_history, false_negatives_detected, dsf, det, thr, weights,
                   scored, struc, ranked, report, input>>

\* any entry of the frontier may be the next one evaluated, the judge
\* behaving at this evaluation as one of judges
TraverseEvaluateWith(judges) ==
    /\ nav # <<>>
    /\ nav[1].phase = "walk"
    /\ \E i \in 1..Len(nav[1].frontier), judge \in judges :
           \E out \in {DualStageFilter(nav[1].frontier[i].node, input.query,
                                       nav[1].frontier[i].depth, judge)} :
               /\ filtering_history' = filtering_history \o out.appended
               /\ nav' = <<TraverseDecide(nav[1], i, out.decision, input.query,
                                          input.nav_max_depth, input.max_branches)>>
    /\ UNCHANGED <<false_negatives_detected, dsf, det, thr, weights, scored, struc,
                   ranked, report, input>>

TraverseEvaluate == TraverseEvaluateWith(NavJudges)

TraverseFinish ==
    /\ nav # <<>>
    /\ nav[1].phase = "walk"
    /\ nav[1].frontier = <<>>
    /\ \E out \in {DetectOverFiltering(nav[1].selected_nodes, nav[1].rejected_nodes,
                                       input.query)} :
           /\ false_negatives_detected' =
                  false_negatives_detected + Len(out.recovery.recovered)
           /\ nav' = <<TraverseEnd(nav[1], out)>>
    /\ UNCHANGED <<filtering_history, dsf, det, thr, weights, scored, struc, ranked,
                   report, input>>

\* trees: a lone root; a root without text over three leaves; a root over two
\* inner nodes with leaves of their own
r_Root == [id |-> "root", title |-> t_DeepNets, summary |-> s_DeepNeuralNetworks]
r_NoText == [id |-> "root", title |-> <<>>, summary |-> <<>>]

tree_RootOnly == r_Root
tree_NoText == r_NoText
tree_Flat == WithChildren(r_NoText, <<n_Activation, n_Learning, n_Sparse9>>)
tree_Deep ==
    WithChildren(r_Root,
                 <<WithChildren(n_Activation, <<n_Title10>>),
                   WithChildren(n_Learning, <<n_Sparse, n_Summary20>>)>>)

Trees == {tree_RootOnly, tree_NoText, tree_Flat, tree_Deep}

InitTraverse ==
    /\ InitObjects
    /\ input \in [root : Trees, query : {q_DeepDeep}, nav_max_depth : 0..MaxNavDepth,
                  max_branches : 0..MaxBranches]

NextTraverse ==
    \/ TraverseStart
    \/ TraverseEvaluate
    \/ TraverseFinish

SpecTraverse == InitTraverse /\ [][NextTraverse]_vars

(***************************************************************************)
(* Claims about the traversal (SpecTraverse)                               *)
(***************************************************************************)
Started == nav # <<>>
Nav == nav[1]
Walking == Started /\ Nav.phase = "walk"
WalkDone == Started /\ Nav.phase = "done"

\* the root has no title and no summary text
RootWithoutText ==
    Get(input.root, "title", <<>>) = <<>> /\ Get(input.root, "summary", <<>>) = <<>>

NoChildAccepted == \A k \in 1..Len(Nav.evaluated) : ~Nav.evaluated[k].is_relevant

\* every element of xs is an element of ys
AllIn(xs, ys) == \A k \in 1..Len(xs) : \E j \in 1..Len(ys) : ys[j] = xs[k]

\* C14 as claimed: the selected set always contains the root; for a tree that
\* is only a root, and for a root with empty title and summary none of whose
\* children is accepted, the traversal ends with the root as sole selected node.
C14_RootSoleSelected ==
    /\ Started => (Len(Nav.selected_nodes) >= 1 /\ Nav.selected_nodes[1] = input.root)
    /\ (WalkDone /\ Children(input.root) = <<>>) => Nav.selected_nodes = <<input.root>>
    /\ (WalkDone /\ RootWithoutText /\ NoChildAccepted) =>
           Nav.selected_nodes = <<input.root>>

\* C14 as amended: the selected set always contains the root, first; for a
\* tree that is only a root the root is the sole selected node; for a root
\* with empty title and summary none of whose children is accepted, the root
\* is the sole node the walk selects, and the traversal ends with the root
\* alone when fewer than three children were rejected, otherwise with the root
\* followed by the rejected children that recovery returned.
C14_RootSelected ==
    /\ Started => (Len(Nav.selected_nodes) >= 1 /\ Nav.selected_nodes[1] = input.root)
    /\ (WalkDone /\ Children(input.root) = <<>>) => Nav.selected_nodes = <<input.root>>
    /\ (WalkDone /\ RootWithoutText /\ NoChildAccepted) =>
           /\ Nav.walk_selected = <<input.root>>
           /\ Len(Nav.rejected_nodes) < 3 => Nav.selected_nodes = <<input.root>>
           /\ Nav.selected_nodes = <<input.root>> \o Nav.recovered
           /\ AllIn(Nav.recovered, Nav.rejected_nodes)

\* the textless root over three leaves, all three rejected: recovery returns
\* the two whose titles hold the query term twice
C14_Witness ==
    /\ WalkDone
    /\ input.root = tree_Flat
    /\ NoChildAccepted
    /\ Len(Nav.rejected_nodes) = 3
    /\ Len(Nav.selected_nodes) = 3
    /\ Nav.selected_nodes[2] \in {n_Learning, n_Sparse9}

\* the frontier entries and the evaluations made
Entries == {Nav.frontier[k] : k \in 1..Len(Nav.frontier)}
Evaluations == {Nav.evaluated[k] : k \in 1..Len(Nav.evaluated)}

AcceptedIds ==
    {input.root.id} \cup {e.id : e \in {x \in Evaluations : x.is_relevant}}
RejectedIds == {e.id : e \in {x \in Evaluations : ~x.is_relevant}}

\* the ids along a path
PathIds(path) == {path[k] : k \in 1..Len(path)}

\* the ids of the nodes of a list
NodeIds(nodes) == [k \in 1..Len(nodes) |-> nodes[k].id]

\* the ids of the accepted evaluations, in the order they were made
RECURSIVE AcceptedInOrder(_)
AcceptedInOrder(es) ==
    IF es = <<>> THEN <<>>
    ELSE (IF Head(es).is_relevant THEN <<Head(es).id>> ELSE <<>>)
         \o AcceptedInOrder(Tail(es))

\* C15: once a node is rejected none of its descendants is visited or
\* evaluated: every node evaluated or waiting for evaluation, and every node
\* the walk itself selects, has all its ancestors accepted, and no node is
\* evaluated twice in a traversal.
C15_PrunedSubtrees ==
    Started =>
        /\ \A e \in Evaluations \cup Entries :
               /\ PathIds(e.path) \subseteq AcceptedIds
               /\ PathIds(e.path) \cap RejectedIds = {}
        /\ \A j, k \in 1..Len(Nav.evaluated) :
               Nav.evaluated[j].id = Nav.evaluated[k].id => j = k
        /\ \A e \in Entries : e.node.id \notin {x.id : x \in Evaluations}
        /\ Walking => NodeIds(Nav.selected_nodes)
                          = <<input.root.id>> \o AcceptedInOrder(Nav.evaluated)
        /\ WalkDone => NodeIds(Nav.walk_selected)
                           = <<input.root.id>> \o AcceptedInOrder(Nav.evaluated)
        /\ NodeIds(Nav.visited_nodes) = <<input.root.id>> \o AcceptedInOrder(Nav.evaluated)

\* 'Activation Functions' rejected and its child never evaluated, 'Deep
\* Learning Networks' accepted and both its children evaluated
C15_Witness ==
    /\ WalkDone
    /\ input.root = tree_Deep
    /\ "act" \in RejectedIds
    /\ "n10" \notin {x.id : x \in Evaluations}
    /\ "dln" \in AcceptedIds
    /\ {"sparse", "n20"} \subseteq {x.id : x \in Evaluations}

\* C16: no node at depth >= max_depth is expanded: no node deeper than
\* max_depth is ever enqueued, evaluated, visited or selected by the walk.
C16_DepthLimit ==
    Started =>
        /\ \A e \in Evaluations \cup Entries :
               /\ e.depth <= input.nav_max_depth
               /\ e.depth = Len(e.path)
               /\ e.depth >= 1
        /\ Len(Nav.visited_nodes) + Len(Nav.rejected_nodes) = 1 + Len(Nav.evaluated)
        /\ input.nav_max_depth = 0 => (Nav.frontier = <<>> /\ Nav.evaluated = <<>>)

\* max_depth 1 on the three-level tree: 'Deep Learning Networks' is accepted
\* at depth 1 and the walk ends with none of its children evaluated
C16_Witness ==
    /\ WalkDone
    /\ input.root = tree_Deep
    /\ input.nav_max_depth = 1
    /\ input.max_branches >= 2
    /\ "dln" \in AcceptedIds
    /\ Len(Nav.evaluated) = 2

\* the nodes of a tree
RECURSIVE NodesOf(_)
NodesOf(node) ==
    {node} \cup UNION {NodesOf(Children(node)[k]) : k \in 1..Len(Children(node))}

\* the node an entry was enqueued from
ParentOf(e) == CHOOSE p \in NodesOf(input.root) : p.id = e.path[Len(e.path)]

\* the RelevanceModel score of the k-th child of p, a node at `depth`
ChildScore(p, k, depth) ==
    RelevanceScore(default_weights, Children(p)[k], input.query, depth, Some(p)).score

\* the children of p that rank before its k-th child: a higher score, or the
\* same score and earlier in the document
RankedBefore(p, k, depth) ==
    {j \in 1..Len(Children(p)) :
        \/ RGt(ChildScore(p, j, depth), ChildScore(p, k, depth))
        \/ ChildScore(p, j, depth) = ChildScore(p, k, depth) /\ j < k}

\* the entries enqueued from the node with this id, evaluated or not yet
EnqueuedFrom(id) == {e \in Evaluations \cup Entries : e.path[Len(e.path)] = id}

Smaller(a, b) == IF a < b THEN a ELSE b

\* the id of the node of a frontier entry or of an evaluation
EntryId(e) == IF "node" \in DOMAIN e THEN e.node.id ELSE e.id

\* C17: at most max_branches children of an accepted node are enqueued, and
\* they are the children ranked highest by RelevanceModel score against the
\* query, ties by document order; a child outside the top max_branches is
\* never enqueued or evaluated.
C17_TopBranches ==
    Started =>
        /\ \A e \in Evaluations \cup Entries :
               LET p == ParentOf(e)
               IN  \E k \in 1..Len(Children(p)) :
                       /\ Children(p)[k].id = EntryId(e)
                       /\ Cardinality(RankedBefore(p, k, e.depth)) < input.max_branches
        /\ \A id \in AcceptedIds : Cardinality(EnqueuedFrom(id)) <= input.max_branches
        /\ Cardinality(EnqueuedFrom(input.root.id))
               = IF input.nav_max_depth = 0 THEN 0
                 ELSE Smaller(input.max_branches, Len(Children(input.root)))

\* max_branches 2 under the textless root: 'Deep Learning Networks' and 'Deep
\* Nets' (score tie, document order) were evaluated; 'Activation Functions',
\* first in the document, never was
C17_Witness ==
    /\ WalkDone
    /\ input.root = tree_Flat
    /\ input.max_branches = 2
    /\ Len(Nav.evaluated) = 2
    /\ Nav.evaluated[1].id = "n9"
    /\ Nav.evaluated[2].id = "dln"
    /\ "act" \notin {x.id : x \in Evaluations}

\* C18: over-filtering detection runs exactly once per traversal, after the
\* walk has completed, on the final selected/rejected partition; when it
\* triggers, the recovered nodes are appended after the walk-selected nodes,
\* whose order is kept, and every recovered node is a rejected one; when it
\* does not trigger the selected list is what the walk produced; the traversal
\* ends with a result either way.
C18_DetectionAfterWalk ==
    /\ Walking =>
           /\ Nav.detections = 0
           /\ false_negatives_detected = 0
           /\ Nav.recovered = <<>>
    /\ WalkDone =>
           /\ Nav.detections = 1
           /\ Nav.frontier = <<>>
           /\ Len(Nav.walk_selected) + Len(Nav.rejected_nodes) = 1 + Len(Nav.evaluated)
           /\ NodeIds(Nav.walk_selected)
                  = <<input.root.id>> \o AcceptedInOrder(Nav.evaluated)
           /\ Nav.selected_nodes = Nav.walk_selected \o Nav.recovered
           /\ AllIn(Nav.recovered, Nav.rejected_nodes)
           /\ ~Nav.triggered => Nav.selected_nodes = Nav.walk_selected
           /\ Nav.recovered # <<>> => Nav.triggered

\* three leaves rejected under the textless root: detection triggered, and
\* the two recovered leaves follow the root
C18_Witness ==
    /\ WalkDone
    /\ input.root = tree_Flat
    /\ Nav.triggered
    /\ Len(Nav.walk_selected) = 1
    /\ Len(Nav.recovered) = 2
    /\ Len(Nav.selected_nodes) = 3
    /\ Nav.selected_nodes[1] = input.root

(***************************************************************************)
(* The end-to-end scenario: the JavaScript Guide (SpecScenario)            *)
(***************************************************************************)
ScenarioDepth == 2
ScenarioBranches == 2

InitScenario ==
    /\ InitObjects
    /\ input = [root |-> sample_tree, query |-> q_JavaScriptFunctions,
                nav_max_depth |-> ScenarioDepth, max_branches |-> ScenarioBranches]

NextScenario ==
    \/ TraverseStart
    \/ TraverseEvaluate
    \/ TraverseFinish

SpecScenario == InitScenario /\ [][NextScenario]_vars

Scenario == input.root = sample_tree /\ input.query = q_JavaScriptFunctions

SelectedIds == {Nav.selected_nodes[k].id : k \in 1..Len(Nav.selected_nodes)}

\* the decision-history records of the node with this id
RecordsOf(id) ==
    {k \in 1..Len(filtering_history) : filtering_history[k].node_id = id}

\* the non-root visited nodes each left a record whose scores are in [0, 1]
EveryVisitedRecorded ==
    \A e \in Evaluations :
        /\ RecordsOf(e.id) # {}
        /\ \A k \in RecordsOf(e.id) :
               /\ InUnit(filtering_history[k].confidence)
               /\ InUnit(filtering_history[k].combined_score)

\* the external judge answered "not relevant" for the node: external score 0.1
JudgedNotRelevant(id) ==
    \E k \in RecordsOf(id) : filtering_history[k].llm_score = R(1, 10)

NoJudgeCall ==
    /\ dsf # <<>>
    /\ ~dsf[1].judge.supplied
    /\ ~IsRoot(dsf[1].depth)
    /\ ~IsSparse(Get(dsf[1].node, "title", <<>>), Get(dsf[1].node, "summary", <<>>))

\* the keyword score of the last call's node for its query
CallKeywordScore ==
    KeywordEvaluate(Get(dsf[1].node, "title", <<>>), Get(dsf[1].node, "summary", <<>>),
                    dsf[1].query)

EvaluationNodes == {n_Bare, n_Sparse9, n_Title10, n_Learning, n_Summary20}
EvaluationDepths == {0, 1}

InitEvaluations ==
    /\ InitObjects
    /\ input = <<>>

NextEvaluations ==
    \E node \in EvaluationNodes, depth \in EvaluationDepths, judge \in Judges :
        DualStageFilterCall(node, q_DeepDeep, depth, judge)

SpecEvaluations == InitEvaluations /\ [][NextEvaluations]_vars

\* every record of the history has confidence and combined_score in [0, 1]
RecordsInUnit ==
    \A k \in 1..Len(filtering_history) :
        /\ InUnit(filtering_history[k].confidence)
        /\ InUnit(filtering_history[k].combined_score)

\* C21 as claimed: with the weights 0.7/0.3 and a judge that is absent, fails
\* or returns a confidence in [0, 1], every record of the history and every
\* FilteringDecision produced has confidence in [0, 1] and combined_score in
\* [0, 1].
C21_AllScoresInUnit ==
    /\ RecordsInUnit
    /\ Called =>
           /\ InUnit(Call.decision.confidence)
           /\ Call.decision.combined_score # None
           /\ InUnit(Call.decision.combined_score[1])

\* C21, amended: every record has confidence and combined_score in [0, 1];
\* every decision has confidence in [0, 1], and a combined_score in [0, 1]
\* when it has one: the decisions for the root and for a sparse node have
\* none.
C21_ScoresInUnit ==
    /\ RecordsInUnit
    /\ Called =>
           /\ ~Call.raised
           /\ InUnit(Call.decision.confidence)
           /\ (Call.decision.combined_score = None)
                  = (Call.depth = 0 \/ (Len(CallTitle) < 10 /\ Len(CallSummary) < 20))
           /\ Call.decision.combined_score # None =>
                  InUnit(Call.decision.combined_score[1])

\* two records, the second from a judge answering relevant at confidence 1
\* for a node with keyword score above 0.5: confidence exactly 1.0
C21_Witness ==
    /\ Len(filtering_history) = 2
    /\ Called
    /\ Call.judge = Returns([relevant |-> TRUE, confidence |-> PyFloat(R(1, 1))])
    /\ Call.decision.confidence = R(1, 1)
    /\ filtering_history[2].confidence = R(1, 1)
    /\ filtering_history[2].combined_score = R(81, 100)
    /\ filtering_history[1].combined_score = R(0, 1)

\* C22: the external judge is not invoked for a call at depth 0 nor for a
\* sparse node (title shorter than 10 and summary shorter than 20), and is
\* invoked exactly once in every other evaluation with a judge supplied (and
\* never without one).
C22_JudgeInvocations ==
    Called =>
        LET guarded == Call.depth = 0 \/ (Len(CallTitle) < 10 /\ Len(CallSummary) < 20)
        IN  /\ guarded => Call.judge_calls = 0
            /\ (~guarded /\ Call.judge.supplied) => Call.judge_calls = 1
            /\ ~Call.judge.supplied => Call.judge_calls = 0
            /\ guarded => Call.decision.llm_score = None

\* a sparse node and a supplied judge at depth 1: no invocation; witnessed
\* after an earlier record
C22_Witness ==
    /\ Called
    /\ Call.node = n_Bare
    /\ Call.depth = 1
    /\ Call.judge = j_Raises
    /\ Call.judge_calls = 0
    /\ Len(filtering_history) = 2

(***************************************************************************)
(* The combination of the two signals (SpecFilter)                         *)
(***************************************************************************)
\* the last call reached the signal combination: depth > 0, enough text
Combined ==
    /\ Called
    /\ Call.depth > 0
    /\ ~(Len(CallTitle) < 10 /\ Len(CallSummary) < 20)

\* the judge answered: a mapping with a boolean and a numeric confidence
JudgeAnswered(judge) ==
    /\ judge.supplied /\ ~judge.raises /\ judge.is_mapping
    /\ "relevant" \in DOMAIN judge.result
    /\ "confidence" \in DOMAIN judge.result
    /\ judge.result.confidence.type = "float"

MatchReasons ==
    {"Strong LLM match", "Strong keyword match", "Moderate match from multiple signals"}

\* C23: for a non-root, non-sparse node the external score is 0.9 when the
\* judge answers relevant and 0.1 when it answers not relevant; combined_score
\* is llm_weight * external score + keyword_weight * keyword score; confidence
\* is the same blend of the judge's confidence and the keyword confidence (1.0
\* if the keyword score exceeds 0.5, else 0.3); is_relevant holds exactly when
\* combined_score > 0.5 (exactly 0.5 is rejected); the reason is a Strong or
\* Moderate match exactly when is_relevant holds.
C23_SignalCombination ==
    Combined =>
        LET d  == Call.decision
            ks == CallKeywordScore
            kc == IF RGt(ks, R(1, 2)) THEN R(1, 1) ELSE R(3, 10)
        IN  /\ ~Call.raised
            /\ d.keyword_score = Some(ks)
            /\ d.llm_score # None /\ d.combined_score # None
            /\ d.combined_score[1]
                   = RAdd(RMul(llm_weight, d.llm_score[1]), RMul(keyword_weight, ks))
            /\ d.is_relevant = RGt(d.combined_score[1], R(1, 2))
            /\ d.combined_score[1] = R(1, 2) => ~d.is_relevant
            /\ (d.reason \in MatchReasons) = d.is_relevant
            /\ JudgeAnswered(Call.judge) =>
                   /\ d.llm_score[1]
                          = (IF Call.judge.result.relevant THEN R(9, 10) ELSE R(1, 10))
                   /\ d.confidence
                          = RAdd(RMul(llm_weight, Call.judge.result.confidence.v),
                                 RMul(keyword_weight, kc))

\* a judge answers relevant at confidence 0.85 for "Functions in JavaScript"
\* (keyword score 0.7): combined 0.84, confidence 0.895, a Strong match
C23_Witness ==
    /\ Combined
    /\ Call.node = js_ch3
    /\ Call.query = q_JavaScriptFunctions
    /\ Call.judge = Returns([relevant |-> TRUE, confidence |-> PyFloat(R(85, 100))])
    /\ Call.decision.combined_score = Some(R(84, 100))
    /\ Call.decision.confidence = R(895, 1000)
    /\ Call.decision.is_relevant
    /\ Call.decision.reason = "Strong LLM match"

\* the judge answered without failing: it returned a mapping whose
\* confidence, when present, is a number
JudgeDidNotFail(judge) ==
    /\ judge.supplied /\ ~judge.raises /\ judge.is_mapping
    /\ Get(judge.result, "confidence", PyFloat(R(1, 2))).type = "float"

\* C29: with the weights 0.7/0.3 and a judge that answers without failing, the
\* judge's boolean alone decides a non-root, non-sparse node: relevant gives
\* is_relevant (combined >= 0.63), not relevant gives ~is_relevant (combined
\* <= 0.37), whatever the keyword score; and no call has the reason "LLM
\* suggests relevance but weak keyword signals".
C29_JudgeDecides ==
    Combined =>
        LET d == Call.decision
        IN  /\ d.reason # "LLM suggests relevance but weak keyword signals"
            /\ JudgeDidNotFail(Call.judge) =>
                   IF Get(Call.judge.result, "relevant", FALSE)
                   THEN d.is_relevant /\ RGe(d.combined_score[1], R(63, 100))
                   ELSE ~d.is_relevant /\ RLe(d.combined_score[1], R(37, 100))

\* the judge answers not relevant for a node matching every keyword in title
\* and summary: combined score 0.37, rejected
C29_Witness ==
    /\ Combined
    /\ Call.node = n_Deep
    /\ Call.query = q_DeepNeuralNetworks
    /\ Call.judge = Returns([relevant |-> FALSE, confidence |-> PyFloat(R(1, 1))])
    /\ Call.decision.keyword_score = Some(R(1, 1))
    /\ Call.decision.combined_score = Some(R(37, 100))
    /\ ~Call.decision.is_relevant
    /\ Call.decision.reason = "Minimal relevance signals"

(***************************************************************************)
(* The semantic component and the weights (SpecScore)                      *)
(***************************************************************************)
\* the semantic component as the claim words it: query terms are the
\* case-folded word tokens longer than 2 characters
ClaimedSemantic(node, query) ==
    LET title == Get(node, "title", <<>>)
        text  == title \o <<".", " ">> \o Get(node, "summary", <<>>)
        query_terms == ToSet(LongerThan(FindAllWords(Lower(query)), 2))
        node_terms  == ToSet(FindAllWords(Lower(text)))
        ratio == R(Cardinality(query_terms \cap node_terms), Cardinality(query_terms))
    IN  IF query_terms = {} THEN R(0, 1)
        ELSE IF \E term \in query_terms : IsSubstring(term, Lower(title))
        THEN RMin(RAdd(ratio, R(2, 10)), R(1, 1))
        ELSE ratio

\* C24: the semantic component is the fraction of the query terms (case-folded
\* word tokens of length > 2 only) that occur among the node's title+summary
\* tokens, 0 when the query has no usable term, plus 0.2 (capped at 1.0) when
\* some query term occurs in the title.
C24_SemanticOverlap ==
    Scored =>
        scored[1].components.semantic = ClaimedSemantic(scored[1].node, scored[1].query)

\* C25: a weight triple with a negative coefficient is rejected by the
\* construction or otherwise never reaches scoring: every relevance_score
\* result was computed with three non-negative coefficients.
C25_NonNegativeWeights ==
    Scored =>
        /\ RGe(weights[1].semantic_weight, R(0, 1))
        /\ RGe(weights[1].structural_weight, R(0, 1))
        /\ RGe(weights[1].contextual_weight, R(0, 1))

(***************************************************************************)
(* The history and the decisions (SpecHistory)                             *)
(***************************************************************************)
SameFilterArguments(a, b) ==
    a.node = b.node /\ a.query = b.query /\ a.depth = b.depth /\ a.judge = b.judge

SameDetectArguments(a, b) ==
    /\ a.op = b.op /\ a.query = b.query
    /\ a.selected_nodes = b.selected_nodes /\ a.filtered_nodes = b.filtered_nodes

\* what the call answers on a filter with an empty history and a counter of 0
FreshDecision(call) == DualStageFilter(call.node, call.query, call.depth, call.judge)

FreshDetection(call) ==
    IF call.op = "detect_over_filtering"
    THEN DetectOverFiltering(call.selected_nodes, call.filtered_nodes, call.query)
    ELSE [triggered |-> FALSE,
          recovery |-> RecoverCriticalNodes(call.filtered_nodes, call.query)]

C27_CountEqualsRecovered ==
    [][ /\ false_negatives_detected' # false_negatives_detected =>
               /\ det' # <<>>
               /\ false_negatives_detected' - false_negatives_detected
                      = Len(det'[1].returned)
               /\ false_negatives_detected' - false_negatives_detected <= 3
        /\ (report' # <<>> /\ report' # report) =>
               report'[1].result.false_negatives = false_negatives_detected'
      ]_vars

(***************************************************************************)
(* The traversal with a judge that fails (SpecJudgeFailures)               *)
(***************************************************************************)
\* the failures of the judge: it raises, returns something that is no
\* mapping, a mapping without the required fields, a confidence that is no
\* number
FailingJudges ==
    {j_Raises, j_NonMapping, Returns([reason |-> "r"]),
     Returns([relevant |-> TRUE, confidence |-> PyStr])}

TraverseEvaluateFailing == TraverseEvaluateWith(FailingJudges)

NextJudgeFailures ==
    \/ TraverseStart
    \/ TraverseEvaluateFailing
    \/ TraverseFinish

\* a step of the traversal is possible: it has not started, or it walks
\* (there is an entry to evaluate, or the frontier is empty and the detection
\* is due)
TraversalCanStep == nav = <<>> \/ nav[1].phase = "walk"

\* the traversal is a loop that runs until its frontier is empty, so a step
\* that stays possible is eventually taken: WF_vars(NextJudgeFailures), written
\* out with TraversalCanStep for ENABLED <<NextJudgeFailures>>_vars
TraversalFairness == []<>(~TraversalCanStep) \/ []<><<NextJudgeFailures>>_vars

SpecJudgeFailures == InitTraverse /\ [][NextJudgeFailures]_vars /\ TraversalFairness

\* every evaluated node left a record
EveryEvaluationRecorded ==
    /\ Len(filtering_history) = Len(Nav.evaluated)
    /\ \A k \in 1..Len(Nav.evaluated) :
           /\ filtering_history[k].node_id = Nav.evaluated[k].id
           /\ filtering_history[k].is_relevant = Nav.evaluated[k].is_relevant

\* a record of a node with enough text made under a failed judge carries the
\* neutral external score 0.5
NeutralOnFailure ==
    \A k \in 1..Len(filtering_history) :
        LET h == filtering_history[k]
        IN  (h.combined_score # R(0, 1) \/ h.keyword_score # R(0, 1)
                 \/ h.confidence # R(95, 100)) => h.llm_score = R(1, 2)

\* the traversal terminates whatever the failures
C28_Terminates == <>WalkDone

\* C28: whatever the judge does at each node (here: it fails at every one), the
\* traversal terminates with a result, no failure escapes an evaluation, and
\* a node whose judge call failed is evaluated all the same, with the neutral
\* external score.
C28_FailuresAbsorbed ==
    /\ [](Started => (EveryEvaluationRecorded /\ NeutralOnFailure))
    /\ <>WalkDone

====
